---- MODULE Spec2Model ----
(***************************************************************************)
(* Model of the claude-code-go SDK: the one-shot Query, the streaming      *)
(* QueryStream with its background reader goroutine, the process executor  *)
(* (Execute / ExecuteStream / streamReader.Close), the option validation   *)
(* and argument building, and the line decoder ParseMessage.               *)
(***************************************************************************)
EXTENDS Integers, Sequences, FiniteSets, TLC

\* ------------------------------------------------------------------ bounds
\* Largest number of lines the subprocess writes to its standard output.
MaxLines == 2
\* Largest number of MessageStream.Close calls the consumer makes.
MaxCloseCalls == 2

\* ------------------------------------------------------------ nil values
Nil == [kind |-> "nil"]

\* ------------------------------------------------------- lines and JSON
\* The JSON value of one field of a record: absent, a string, or a number.
Absent == [json |-> "absent", text |-> ""]
JString(s) == [json |-> "string", text |-> s]
JNumber(n) == [json |-> "number", text |-> n]

\* A line of subprocess output: its raw text and what encoding/json makes
\* of it (json = "object" for a well-formed JSON object, "null" for the
\* JSON null, "scalar" for a well-formed JSON number, "invalid" for text
\* that is not JSON; type = the value of the "type" field, "" when the
\* field is absent; session_id = the JSON value of the "session_id" field).
LEmpty == [raw |-> "", json |-> "invalid", type |-> "", session_id |-> Absent]
LBad   == [raw |-> "{invalid json}", json |-> "invalid", type |-> "",
           session_id |-> Absent]
LBoom  == [raw |-> "boom", json |-> "invalid", type |-> "",
           session_id |-> Absent]
LNull  == [raw |-> "null", json |-> "null", type |-> "",
           session_id |-> Absent]
LScalar == [raw |-> "5", json |-> "scalar", type |-> "",
            session_id |-> Absent]
\* Lines of white space only: one space, and one carriage return (the line
\* of a "\r\n" line ending with nothing before it).
LSpace == [raw |-> " ", json |-> "invalid", type |-> "",
           session_id |-> Absent]
LCR    == [raw |-> "\r", json |-> "invalid", type |-> "",
           session_id |-> Absent]

\* A well-formed record longer than the scanner's largest token
\* (bufio.MaxScanTokenSize, 64 KiB); its text is abbreviated here.
LLong == [raw |-> "{\"type\":\"assistant\",\"message\":\"...\"}",
          json |-> "object", type |-> "assistant", session_id |-> Absent]

\* A record cut short: the first bytes of a line, not JSON by themselves.
LPartial == [raw |-> "{\"type\":\"assi", json |-> "invalid", type |-> "",
             session_id |-> Absent]
LNoType == [raw |-> "{\"message\":\"hello\"}", json |-> "object", type |-> "",
            session_id |-> Absent]

\* The well-formed JSON object with a "type" field and, when sid is not
\* Absent, a "session_id" field.
LRecord(t, sid) ==
  [raw |-> "{\"type\":\"" \o t \o "\""
           \o (CASE sid.json = "absent" -> ""
                 [] sid.json = "string" ->
                      ",\"session_id\":\"" \o sid.text \o "\""
                 [] OTHER -> ",\"session_id\":" \o sid.text)
           \o "}",
   json |-> "object", type |-> t, session_id |-> sid]

\* The well-formed record of a given type with no other field.
LGood(t) == LRecord(t, Absent)

\* The process's i-th stdout line is empty or a lone carriage return,
\* malformed (text that is not JSON, or a space), or the well-formed record
\* whose type is the i-th of user, assistant, result, system,
\* permission_request (cyclically), so that every record of a run is
\* distinct from the records around it; every second line can also be a
\* record too long for the scanner.
TypeOrder == <<"user", "assistant", "result", "system", "permission_request">>
TypeAt(i) == TypeOrder[((i - 1) % Len(TypeOrder)) + 1]
BlankAt(i) == IF i % 2 = 1 THEN LEmpty ELSE LCR
MalformedAt(i) == IF i % 2 = 1 THEN LBad ELSE LSpace
LongAt(i) == IF i % 2 = 1 THEN {} ELSE {LLong}
StdoutLines(i) ==
  {BlankAt(i), MalformedAt(i), LGood(TypeAt(i))} \cup LongAt(i)
\* What the CLI prints under --output-format json is one result document;
\* besides the lines above the one-shot process can print a result record
\* with a session id, one whose session id is a number, null, an object
\* with no type field, or a record of a type that is no message type.
Documents ==
  {LRecord("result", JString("test-session")),
   LRecord("result", JNumber("5")), LNull, LNoType,
   LRecord("unknown", Absent)}
\* What the process writes to its stderr as it exits.
Diagnostics == {<<>>, <<LBoom>>}

\* The five discriminator values ParseMessage routes.
MessageTypes == {"user", "assistant", "result", "system", "permission_request"}

\* string(bytes) of a sequence of lines: the raw texts in order.
Text(ls) == [i \in 1..Len(ls) |-> ls[i].raw]

\* ---------------------------------------------------------------- errors
ConfigError(field, value, reason, message) ==
  [kind |-> "ConfigError", Field |-> field, Value |-> value,
   Reason |-> reason, Message |-> message]

ProcessError(code, message) ==
  [kind |-> "ProcessError", ExitCode |-> code, Message |-> message]

\* The error of an aborted operation: declared, constructed by no operation.
AbortError(message) == [kind |-> "AbortError", Message |-> message]

ParseError(line, message) ==
  [kind |-> "ParseError", Line |-> line, Message |-> message]

\* fmt.Errorf(context + ": %w", cause)
Errorf(context, cause) ==
  [kind |-> "wrapError", context |-> context, cause |-> cause]

\* errors.New(text): an error of no SDK kind.
PlainError(text) == [kind |-> "error", text |-> text]

\* ---------------------------------------------------------- ParseMessage
\* json.Unmarshal into a struct accepts a JSON object and the JSON null
\* (which leaves the struct untouched).
DecodesToStruct(line) == line.json \in {"object", "null"}

\* json.Unmarshal into a string field accepts a string; an absent field
\* leaves the zero value.
DecodesToString(v) == v.json \in {"absent", "string"}

\* The name of a variant in the decode diagnostics.
VariantName(t) == IF t = "permission_request" THEN "permission request" ELSE t

\* Variant: the switch has no case for permission_request.
ParseMessageFourTypes(line) ==
  IF ~DecodesToStruct(line)
    THEN [Message |-> Nil, Err |-> ParseError(line.raw, "invalid JSON")]
    ELSE IF line.type \in MessageTypes \ {"permission_request"}
      THEN IF ~DecodesToString(line.session_id)
             THEN [Message |-> Nil,
                   Err |-> ParseError(line.raw, "failed to parse "
                              \o VariantName(line.type) \o " message")]
             ELSE [Message |-> [kind |-> "message", messageType |-> line.type,
                                Type |-> line.type,
                                SessionID |-> line.session_id.text,
                                line |-> line.raw],
                   Err |-> Nil]
      ELSE [Message |-> Nil,
            Err |-> ParseError(line.raw, "unknown message type: " \o line.type)]

\* Variant: a record with no discriminator is taken for a user message.
ParseMessageGuessUser(line) ==
  IF ~DecodesToStruct(line)
    THEN [Message |-> Nil, Err |-> ParseError(line.raw, "invalid JSON")]
    ELSE IF line.type \in MessageTypes \cup {""}
      THEN IF ~DecodesToString(line.session_id)
             THEN [Message |-> Nil,
                   Err |-> ParseError(line.raw, "failed to parse "
                              \o VariantName(line.type) \o " message")]
             ELSE [Message |-> [kind |-> "message",
                                messageType |->
                                  IF line.type = "" THEN "user" ELSE line.type,
                                Type |-> line.type,
                                SessionID |-> line.session_id.text,
                                line |-> line.raw],
                   Err |-> Nil]
      ELSE [Message |-> Nil,
            Err |-> ParseError(line.raw, "unknown message type: " \o line.type)]

\* ParseMessage(line): decode the discriminator, then the matching variant.
\* The result is the pair (Message, Err) the Go function returns.
ParseMessage(line) ==
  IF ~DecodesToStruct(line)
    THEN [Message |-> Nil, Err |-> ParseError(line.raw, "invalid JSON")]
    ELSE IF line.type \in MessageTypes
      THEN IF ~DecodesToString(line.session_id)
             THEN [Message |-> Nil,
                   Err |-> ParseError(line.raw, "failed to parse "
                              \o VariantName(line.type) \o " message")]
             ELSE [Message |-> [kind |-> "message", messageType |-> line.type,
                                Type |-> line.type,
                                SessionID |-> line.session_id.text,
                                line |-> line.raw],
                   Err |-> Nil]
      ELSE [Message |-> Nil,
            Err |-> ParseError(line.raw, "unknown message type: " \o line.type)]

\* MessageOrError as sent on the Messages channel.
MessageOrError(m, e) == [Message |-> m, Err |-> e]

\* ---------------------------------------------------------------- Options
\* A *int is the empty sequence (nil) or a one-element sequence; *Options
\* likewise.  MCPServers maps a server name to "nil" (a nil interface value)
\* or to the kind of its configuration.
MCPNameOrder == <<"a", "b">>

EmptyOptions ==
  [AllowedTools |-> <<>>, DisallowedTools |-> <<>>,
   CustomSystemPrompt |-> "", AppendSystemPrompt |-> "",
   WorkingDir |-> "",
   MaxThinkingTokens |-> <<>>, MaxTurns |-> <<>>,
   MCPServers |-> <<>>,
   PathToClaudeCodeExecutable |-> "",
   PermissionMode |-> "", PermissionPromptToolName |-> "",
   Continue |-> FALSE, Resume |-> "",
   Model |-> "", FallbackModel |-> ""]

PermissionDefault == "default"
PermissionAcceptEdits == "acceptEdits"
PermissionBypassPermissions == "bypassPermissions"
PermissionPlan == "plan"

\* strconv.Itoa
Itoa(n) == ToString(n)

\* strings.Join
RECURSIVE Join(_, _)
Join(elems, sep) ==
  IF Len(elems) = 0 THEN ""
  ELSE IF Len(elems) = 1 THEN elems[1]
  ELSE elems[1] \o sep \o Join(Tail(elems), sep)

\* json.Marshal of one MCPServerConfig value (struct fields are untagged).
MarshalConfig(c) ==
  CASE c = "nil"   -> "null"
    [] c = "stdio" -> "{\"Command\":\"node\",\"Args\":null,\"Env\":null}"
    [] c = "sse"   -> "{\"URL\":\"http://x\",\"Headers\":null}"
    [] OTHER       -> "{}"

\* json.Marshal of map[string]MCPServerConfig: keys in sorted order.
MarshalServers(m) ==
  LET present == SelectSeq(MCPNameOrder, LAMBDA n : n \in DOMAIN m)
      entry(n) == "\"" \o n \o "\":" \o MarshalConfig(m[n])
  IN  "{" \o Join([i \in 1..Len(present) |-> entry(present[i])], ",") \o "}"

\* Variant: a numeric limit is emitted only when it is greater than zero.
BuildArgsSkipZero(opts) ==
  IF opts = <<>> THEN <<>>
  ELSE LET o == opts[1] IN
       (IF o.Model # "" THEN <<"--model", o.Model>> ELSE <<>>)
    \o (IF o.FallbackModel # "" THEN <<"--fallback-model", o.FallbackModel>> ELSE <<>>)
    \o (IF o.Continue THEN <<"--continue">> ELSE <<>>)
    \o (IF o.Resume # "" THEN <<"--resume", o.Resume>> ELSE <<>>)
    \o (IF o.CustomSystemPrompt # "" THEN <<"--system-prompt", o.CustomSystemPrompt>> ELSE <<>>)
    \o (IF o.AppendSystemPrompt # "" THEN <<"--append-system-prompt", o.AppendSystemPrompt>> ELSE <<>>)
    \o (IF Len(o.AllowedTools) > 0 THEN <<"--allowed-tools", Join(o.AllowedTools, ",")>> ELSE <<>>)
    \o (IF Len(o.DisallowedTools) > 0 THEN <<"--disallowed-tools", Join(o.DisallowedTools, ",")>> ELSE <<>>)
    \o (IF o.MaxThinkingTokens # <<>> /\ o.MaxThinkingTokens[1] > 0
          THEN <<"--max-thinking-tokens", Itoa(o.MaxThinkingTokens[1])>> ELSE <<>>)
    \o (IF o.MaxTurns # <<>> /\ o.MaxTurns[1] > 0
          THEN <<"--max-turns", Itoa(o.MaxTurns[1])>> ELSE <<>>)
    \o (IF o.PermissionMode # "" THEN <<"--permission-mode", o.PermissionMode>> ELSE <<>>)
    \o (IF o.PermissionPromptToolName # "" THEN <<"--permission-prompt-tool-name", o.PermissionPromptToolName>> ELSE <<>>)
    \o (IF DOMAIN o.MCPServers # {} THEN <<"--mcp-servers", MarshalServers(o.MCPServers)>> ELSE <<>>)

\* ArgumentBuilder.BuildArgs
BuildArgs(opts) ==
  IF opts = <<>> THEN <<>>
  ELSE LET o == opts[1] IN
       (IF o.Model # "" THEN <<"--model", o.Model>> ELSE <<>>)
    \o (IF o.FallbackModel # "" THEN <<"--fallback-model", o.FallbackModel>> ELSE <<>>)
    \o (IF o.Continue THEN <<"--continue">> ELSE <<>>)
    \o (IF o.Resume # "" THEN <<"--resume", o.Resume>> ELSE <<>>)
    \o (IF o.CustomSystemPrompt # "" THEN <<"--system-prompt", o.CustomSystemPrompt>> ELSE <<>>)
    \o (IF o.AppendSystemPrompt # "" THEN <<"--append-system-prompt", o.AppendSystemPrompt>> ELSE <<>>)
    \o (IF Len(o.AllowedTools) > 0 THEN <<"--allowed-tools", Join(o.AllowedTools, ",")>> ELSE <<>>)
    \o (IF Len(o.DisallowedTools) > 0 THEN <<"--disallowed-tools", Join(o.DisallowedTools, ",")>> ELSE <<>>)
    \o (IF o.MaxThinkingTokens # <<>> THEN <<"--max-thinking-tokens", Itoa(o.MaxThinkingTokens[1])>> ELSE <<>>)
    \o (IF o.MaxTurns # <<>> THEN <<"--max-turns", Itoa(o.MaxTurns[1])>> ELSE <<>>)
    \o (IF o.PermissionMode # "" THEN <<"--permission-mode", o.PermissionMode>> ELSE <<>>)
    \o (IF o.PermissionPromptToolName # "" THEN <<"--permission-prompt-tool-name", o.PermissionPromptToolName>> ELSE <<>>)
    \o (IF DOMAIN o.MCPServers # {} THEN <<"--mcp-servers", MarshalServers(o.MCPServers)>> ELSE <<>>)

\* Variant: Validate without the permission-mode check.
ValidateWithoutMode(opts) ==
  IF opts = <<>> THEN {Nil}
  ELSE LET o == opts[1]
           nilServers == {n \in DOMAIN o.MCPServers : o.MCPServers[n] = "nil"}
       IN
       IF o.MaxThinkingTokens # <<>> /\ o.MaxThinkingTokens[1] < 0
         THEN {ConfigError("MaxThinkingTokens", Itoa(o.MaxThinkingTokens[1]),
                           "must be non-negative", "")}
       ELSE IF o.MaxTurns # <<>> /\ o.MaxTurns[1] < 0
         THEN {ConfigError("MaxTurns", Itoa(o.MaxTurns[1]),
                           "must be non-negative", "")}
       ELSE IF nilServers # {}
         THEN {ConfigError("MCPServers[" \o n \o "]", "nil",
                           "server config cannot be nil", "") : n \in nilServers}
       ELSE {Nil}

\* Variant: a numeric limit of 0 is rejected too (<= for <).
ValidateRejectsZero(opts) ==
  IF opts = <<>> THEN {Nil}
  ELSE LET o == opts[1]
           validModes == {PermissionDefault, PermissionAcceptEdits,
                          PermissionBypassPermissions, PermissionPlan}
           nilServers == {n \in DOMAIN o.MCPServers : o.MCPServers[n] = "nil"}
       IN
       IF o.MaxThinkingTokens # <<>> /\ o.MaxThinkingTokens[1] <= 0
         THEN {ConfigError("MaxThinkingTokens", Itoa(o.MaxThinkingTokens[1]),
                           "must be non-negative", "")}
       ELSE IF o.MaxTurns # <<>> /\ o.MaxTurns[1] <= 0
         THEN {ConfigError("MaxTurns", Itoa(o.MaxTurns[1]),
                           "must be non-negative", "")}
       ELSE IF nilServers # {}
         THEN {ConfigError("MCPServers[" \o n \o "]", "nil",
                           "server config cannot be nil", "") : n \in nilServers}
       ELSE IF o.PermissionMode # "" /\ o.PermissionMode \notin validModes
         THEN {ConfigError("PermissionMode", o.PermissionMode,
                           "must be 'default', 'acceptEdits', 'bypassPermissions', or 'plan'", "")}
       ELSE {Nil}

\* Variant: the permission mode is checked before everything else.
ValidateModeFirst(opts) ==
  IF opts = <<>> THEN {Nil}
  ELSE LET o == opts[1]
           validModes == {PermissionDefault, PermissionAcceptEdits,
                          PermissionBypassPermissions, PermissionPlan}
           nilServers == {n \in DOMAIN o.MCPServers : o.MCPServers[n] = "nil"}
       IN
       IF o.PermissionMode # "" /\ o.PermissionMode \notin validModes
         THEN {ConfigError("PermissionMode", o.PermissionMode,
                           "must be 'default', 'acceptEdits', 'bypassPermissions', or 'plan'", "")}
       ELSE IF o.MaxThinkingTokens # <<>> /\ o.MaxThinkingTokens[1] < 0
         THEN {ConfigError("MaxThinkingTokens", Itoa(o.MaxThinkingTokens[1]),
                           "must be non-negative", "")}
       ELSE IF o.MaxTurns # <<>> /\ o.MaxTurns[1] < 0
         THEN {ConfigError("MaxTurns", Itoa(o.MaxTurns[1]),
                           "must be non-negative", "")}
       ELSE IF nilServers # {}
         THEN {ConfigError("MCPServers[" \o n \o "]", "nil",
                           "server config cannot be nil", "") : n \in nilServers}
       ELSE {Nil}

\* ArgumentBuilder.Validate: the set of values the call can return (Nil for
\* a nil error).  The range over the MCPServers map visits the entries in an
\* unspecified order, so any nil entry can be the one reported.
Validate(opts) ==
  IF opts = <<>> THEN {Nil}
  ELSE LET o == opts[1]
           validModes == {PermissionDefault, PermissionAcceptEdits,
                          PermissionBypassPermissions, PermissionPlan}
           nilServers == {n \in DOMAIN o.MCPServers : o.MCPServers[n] = "nil"}
       IN
       IF o.MaxThinkingTokens # <<>> /\ o.MaxThinkingTokens[1] < 0
         THEN {ConfigError("MaxThinkingTokens", Itoa(o.MaxThinkingTokens[1]),
                           "must be non-negative", "")}
       ELSE IF o.MaxTurns # <<>> /\ o.MaxTurns[1] < 0
         THEN {ConfigError("MaxTurns", Itoa(o.MaxTurns[1]),
                           "must be non-negative", "")}
       ELSE IF nilServers # {}
         THEN {ConfigError("MCPServers[" \o n \o "]", "nil",
                           "server config cannot be nil", "") : n \in nilServers}
       ELSE IF o.PermissionMode # "" /\ o.PermissionMode \notin validModes
         THEN {ConfigError("PermissionMode", o.PermissionMode,
                           "must be 'default', 'acceptEdits', 'bypassPermissions', or 'plan'", "")}
       ELSE {Nil}

\* ------------------------------------------------------------ call inputs
Prompts == {"", "Hello"}

IntPtrs == {<<>>, <<-1>>, <<0>>}

ServerMaps ==
  { <<>>,
    [n \in {"a"} |-> "stdio"],
    [n \in {"a"} |-> "nil"],
    [n \in {"a", "b"} |-> IF n = "a" THEN "sse" ELSE "nil"],
    [n \in {"a", "b"} |-> "nil"] }

Modes == {"", PermissionPlan, "bogus"}

\* A valid Options value with a field of every kind set.
RichOptions ==
  [EmptyOptions EXCEPT !.MaxThinkingTokens = <<0>>,
                       !.PermissionMode = PermissionPlan,
                       !.MCPServers = [n \in {"a"} |-> "stdio"],
                       !.PathToClaudeCodeExecutable = "/opt/claude",
                       !.WorkingDir = "/work",
                       !.Model = "claude-3-opus",
                       !.Continue = TRUE,
                       !.AllowedTools = <<"Read", "Write">>]

\* The *Options values a caller passes: nil, a pointer to a valid record, or
\* a pointer to a record that breaks one or more of the constraints.
OptionsValues ==
  {<<>>, <<RichOptions>>} \cup
  { o \in { <<[EmptyOptions EXCEPT !.MaxThinkingTokens = t, !.MaxTurns = u,
                                   !.MCPServers = m, !.PermissionMode = p]>> :
              t \in IntPtrs, u \in {<<>>, <<-1>>}, m \in ServerMaps,
              p \in Modes } :
      \/ (o[1].MaxThinkingTokens # <<>> /\ o[1].MaxThinkingTokens[1] < 0)
      \/ o[1].MaxTurns # <<>>
      \/ (\E n \in DOMAIN o[1].MCPServers : o[1].MCPServers[n] = "nil")
      \/ o[1].PermissionMode = "bogus" }

\* -------------------------------------------------------- executor results
ExitCodes == {0, 2}

\* The lines the process wrote to one descriptor, in order.
Written(w, fd) ==
  LET sel == SelectSeq(w, LAMBDA x : x.fd = fd)
  IN  [i \in 1..Len(sel) |-> sel[i].line]

\* The lines the process wrote to either descriptor, in order
\* (cmd.CombinedOutput).
CombinedOutput(w) == [i \in 1..Len(w) |-> w[i].line]

\* What starting the process can come to.  DefaultCommandExecutor returns a
\* plain error when cmd.Start fails (at once when the context is already
\* done); an executor supplied through NewClientWithExecutor may also return
\* a *ProcessError.  Nil: the process started.
StartOutcomes(ctxDone) ==
  IF ctxDone THEN {PlainError("context canceled")}
  ELSE {Nil, PlainError("executable file not found"),
        ProcessError(1, <<"CLI error">>)}

\* Variant: the ProcessError of Execute carries the stderr text only.
ExecuteStderrMessage(code, w) ==
  IF code # 0
    THEN [output |-> <<>>, err |-> ProcessError(code, Text(Written(w, 2)))]
    ELSE [output |-> CombinedOutput(w), err |-> Nil]

\* DefaultCommandExecutor.Execute once the process has ended: the pair
\* (output, err) it returns.
Execute(code, w) ==
  IF code # 0
    THEN [output |-> <<>>, err |-> ProcessError(code, Text(CombinedOutput(w)))]
    ELSE [output |-> CombinedOutput(w), err |-> Nil]

\* streamReader.Close once cmd.Wait has returned: the error it returns.
streamReaderClose(code, w) ==
  IF code # 0 THEN ProcessError(code, Text(Written(w, 2))) ELSE Nil

\* Variant: the ProcessError of a killed process is reported as an
\* AbortError.
ExecErrorAbortOnKill(err) ==
  IF err.kind = "ProcessError"
    THEN IF err.ExitCode = -1 THEN AbortError("operation aborted") ELSE err
    ELSE Errorf("failed to execute command", err)

\* Variant: every executor error is wrapped, a ProcessError too.
ExecErrorAlwaysWrapped(err) ==
  Errorf("failed to execute command", err)

\* The error Query and QueryStream return for an executor error.
ExecError(err) ==
  IF err.kind = "ProcessError" THEN err
  ELSE Errorf("failed to execute command", err)

\* json.Unmarshal skips white space around the document: a line of white
\* space only is no part of it.
IsJSONSpace(l) == l.raw \in {"", " ", "\r"}

\* Variant: the first document of the output is decoded and what follows it
\* is ignored (as a json.Decoder reading one value would).
UnmarshalFirstDocument(output) ==
  LET docs == SelectSeq(output, LAMBDA l : ~IsJSONSpace(l))
  IN  IF /\ Len(docs) >= 1
         /\ DecodesToStruct(docs[1])
         /\ DecodesToString(docs[1].session_id)
        THEN [result |-> [kind |-> "ResultMessage", Type |-> docs[1].type,
                          SessionID |-> docs[1].session_id.text],
              err |-> Nil]
        ELSE [result |-> Nil,
              err |-> ParseError(Text(output), "failed to parse JSON response")]

\* Variant: Query accepts a document only when its type is "result".
UnmarshalResultOnly(output) ==
  LET docs == SelectSeq(output, LAMBDA l : ~IsJSONSpace(l))
  IN  IF /\ Len(docs) = 1
         /\ DecodesToStruct(docs[1])
         /\ DecodesToString(docs[1].session_id)
         /\ docs[1].type = "result"
        THEN [result |-> [kind |-> "ResultMessage", Type |-> docs[1].type,
                          SessionID |-> docs[1].session_id.text],
              err |-> Nil]
        ELSE [result |-> Nil,
              err |-> ParseError(Text(output), "failed to parse JSON response")]

\* json.Unmarshal(output, &result) in Query: the output is one JSON document
\* when it holds exactly one non-blank line and that line is well-formed
\* JSON; the document decodes when it is an object whose fields have the
\* types of ResultMessage, or null (which leaves the zero ResultMessage).
Unmarshal(output) ==
  LET docs == SelectSeq(output, LAMBDA l : ~IsJSONSpace(l))
  IN  IF /\ Len(docs) = 1
         /\ DecodesToStruct(docs[1])
         /\ DecodesToString(docs[1].session_id)
        THEN [result |-> [kind |-> "ResultMessage", Type |-> docs[1].type,
                          SessionID |-> docs[1].session_id.text],
              err |-> Nil]
        ELSE [result |-> Nil,
              err |-> ParseError(Text(output), "failed to parse JSON response")]

\* ------------------------------------------------------------------ state
VARIABLES
  prompt,          \* the prompt argument of the call
  opts,            \* the *Options argument of the call
  callerCancelled, \* the caller's context is done
  pc,              \* "idle", "executing" (Query blocked in Execute), "returned"
  ret,             \* what the call returned: [kind, val, err]
  execLog,         \* the executor invocations, in order
  execErr,         \* the error the executor returned (Nil: none)
  procState,       \* "none", "running", "exited", "killed"
  exitCode,        \* exit status of the ended process
  wrote,           \* what the process wrote: sequence of [fd, line]
  reaped,          \* cmd.Wait has returned
  rpc,             \* position of the reader goroutine
  rd,              \* number of stdout lines the scanner has returned
  cur,             \* the item the reader is offering
  readFailed,      \* a read on the output handle failed
  cancelInvoked,   \* the derived context's cancel function has been called
  closeCalls,      \* number of MessageStream.Close calls
  pipeClosed,      \* the stdout pipe has been closed by streamReader.Close
  handleCloses,    \* number of streamReader.Close calls
  closeRet,        \* what streamReader.Close returned
  chanClosed,      \* close(messages) has run
  received,        \* the items the consumer received, in order
  sawClosed,       \* the consumer has observed Messages closed
  abandoned,       \* the consumer has stopped receiving
  inputLine,       \* the line argument of a direct ParseMessage call
  parsed,          \* what ParseMessage returned: <<>> or <<[Message, Err]>>
  built,           \* what BuildArgs returned: <<>> or <<args>>
  validated,       \* what Validate returned: <<>> or <<err>>
  defaultClient,   \* the package-level client the package functions call
  clientCalls      \* the calls a stand-in default client received

callVars == <<prompt, opts>>
procVars == <<procState, exitCode, wrote>>
readerVars == <<rpc, rd, cur, readFailed, pipeClosed, handleCloses, closeRet,
                chanClosed, reaped>>
consumerVars == <<received, sawClosed, abandoned>>
libVars == <<inputLine, parsed, built, validated, defaultClient, clientCalls>>
vars == <<prompt, opts, callerCancelled, pc, ret, execLog, execErr,
          procState, exitCode, wrote, reaped, rpc, rd, cur, readFailed,
          cancelInvoked, closeCalls, pipeClosed, handleCloses, closeRet,
          chanClosed, received, sawClosed, abandoned, inputLine, parsed, built,
          validated, defaultClient, clientCalls>>

\* Variant: the derived context does not follow the caller's context.
StreamCtxDetached == cancelInvoked

\* streamCtx.Done(): the derived context is done when its cancel function
\* was called or its parent is done.
StreamCtxDone == callerCancelled \/ cancelInvoked

\* Variant: the scanner keeps a carriage return that ends a line.
ScanLinesKeepCR(l) == l

\* bufio.ScanLines: a line is returned without its newline and without one
\* carriage return before it.  Of the lines above only LCR ends in one.
ScanLines(l) == IF l = LCR THEN LEmpty ELSE l

\* The process's stdout as the scanner cuts it into lines.
Stdout ==
  LET w == Written(wrote, 1) IN [i \in 1..Len(w) |-> ScanLines(w[i])]

SendStates == {"send_msg", "send_parse_err", "send_read_err"}

\* Before any call: no process, no reader, nothing returned.
Fresh ==
  /\ callerCancelled = FALSE
  /\ pc = "idle"
  /\ ret = [kind |-> "none", val |-> Nil, err |-> Nil]
  /\ execLog = <<>>
  /\ execErr = Nil
  /\ procState = "none"
  /\ exitCode = 0
  /\ wrote = <<>>
  /\ reaped = FALSE
  /\ rpc = "none"
  /\ rd = 0
  /\ cur = Nil
  /\ readFailed = FALSE
  /\ cancelInvoked = FALSE
  /\ closeCalls = 0
  /\ pipeClosed = FALSE
  /\ handleCloses = 0
  /\ closeRet = Nil
  /\ chanClosed = FALSE
  /\ received = <<>>
  /\ sawClosed = FALSE
  /\ abandoned = FALSE
  /\ parsed = <<>>
  /\ built = <<>>
  /\ validated = <<>>
  /\ clientCalls = <<>>

\* The client NewClient() makes: clientImpl with the default executor.
NewClient == [kind |-> "clientImpl"]

Init ==
  /\ prompt \in Prompts
  /\ opts \in OptionsValues
  /\ inputLine = Nil
  /\ defaultClient = NewClient
  /\ Fresh

\* ---------------------------------------------------------------- actions
\* The value a call returns.
Return(kind, val, err) == [kind |-> kind, val |-> val, err |-> err]

\* Variant: the executable option is ignored.
ExecutableDefaultOnly(o) == "claude"

\* The executable name: the option when set, else "claude".
Executable(o) ==
  IF o # <<>> /\ o[1].PathToClaudeCodeExecutable # ""
    THEN o[1].PathToClaudeCodeExecutable ELSE "claude"

\* opts.WorkingDir after a nil opts was replaced by &Options{}.
WorkingDir(o) == IF o = <<>> THEN "" ELSE o[1].WorkingDir

\* The argument list Query hands to the executor.
QueryArgs(o) == <<"--print", "--output-format", "json">> \o BuildArgs(o)

\* Variant: the streaming call leaves out --verbose.
QueryStreamArgsNoVerbose(o) ==
  <<"--print", "--output-format", "stream-json">> \o BuildArgs(o)

\* The argument list QueryStream hands to the executor.
QueryStreamArgs(o) ==
  <<"--print", "--output-format", "stream-json", "--verbose">> \o BuildArgs(o)

\* Variant: the options are validated before the prompt is looked at.
PrecheckValidateFirst(p, o) ==
  IF Validate(o) # {Nil} THEN Validate(o)
  ELSE IF p = "" THEN {ConfigError("prompt", "", "", "prompt is required")}
  ELSE {Nil}

\* The checks Query and QueryStream both make before anything else: the
\* prompt first, then the options.  The set of errors the call can return
\* early (Nil: none, the call goes on).
Precheck(p, o) ==
  IF p = "" THEN {ConfigError("prompt", "", "", "prompt is required")}
  ELSE Validate(o)

\* Variant: nil options are replaced by an empty record in the caller's
\* variable.
QueryDefaultsInPlace ==
  /\ pc = "idle"
  /\ opts' = IF opts = <<>> THEN <<EmptyOptions>> ELSE opts
  /\ \E verr \in Precheck(prompt, opts) :
              IF verr # Nil
                THEN /\ ret' = Return("error", Nil, verr)
                     /\ pc' = "returned"
                     /\ UNCHANGED <<execLog, execErr, procState>>
                ELSE /\ execLog' = Append(execLog,
                          [mode |-> "Execute", name |-> Executable(opts),
                           args |-> QueryArgs(opts),
                           stdin |-> prompt, workingDir |-> WorkingDir(opts)])
                     /\ \E out \in StartOutcomes(callerCancelled) :
                          IF out # Nil
                            THEN /\ execErr' = out
                                 /\ ret' = Return("error", Nil, ExecError(out))
                                 /\ pc' = "returned"
                                 /\ UNCHANGED procState
                            ELSE /\ procState' = "running"
                                 /\ pc' = "executing"
                                 /\ UNCHANGED <<ret, execErr>>
  /\ UNCHANGED <<prompt, libVars, callerCancelled, exitCode, wrote, readerVars,
                 cancelInvoked, closeCalls, consumerVars>>

\* clientImpl.Query up to the point where Execute blocks on the process.
Query ==
  /\ pc = "idle"
  /\ \E verr \in Precheck(prompt, opts) :
              IF verr # Nil
                THEN /\ ret' = Return("error", Nil, verr)
                     /\ pc' = "returned"
                     /\ UNCHANGED <<execLog, execErr, procState>>
                ELSE /\ execLog' = Append(execLog,
                          [mode |-> "Execute", name |-> Executable(opts),
                           args |-> QueryArgs(opts),
                           stdin |-> prompt, workingDir |-> WorkingDir(opts)])
                     /\ \E out \in StartOutcomes(callerCancelled) :
                          IF out # Nil
                            THEN /\ execErr' = out
                                 /\ ret' = Return("error", Nil, ExecError(out))
                                 /\ pc' = "returned"
                                 /\ UNCHANGED procState
                            ELSE /\ procState' = "running"
                                 /\ pc' = "executing"
                                 /\ UNCHANGED <<ret, execErr>>
  /\ UNCHANGED <<callVars, libVars, callerCancelled, exitCode, wrote, readerVars,
                 cancelInvoked, closeCalls, consumerVars>>

\* clientImpl.Query from the return of Execute on: the process has ended,
\* CombinedOutput has waited for it.
QueryReturn ==
  /\ pc = "executing"
  /\ procState \in {"exited", "killed"}
  /\ LET r == Execute(exitCode, wrote) IN
       /\ execErr' = r.err
       /\ IF r.err # Nil
            THEN ret' = Return("error", Nil, ExecError(r.err))
            ELSE LET u == Unmarshal(r.output) IN
                 IF u.err # Nil
                   THEN ret' = Return("error", Nil, u.err)
                   ELSE ret' = Return("result", u.result, Nil)
  /\ reaped' = TRUE
  /\ pc' = "returned"
  /\ UNCHANGED <<callVars, libVars, callerCancelled, execLog, procVars, rpc, rd, cur,
                 readFailed, cancelInvoked, closeCalls, pipeClosed,
                 handleCloses, closeRet, chanClosed, consumerVars>>

\* Variant: a failed start returns the error without cancelling the derived
\* context.
QueryStreamKeepsContext ==
  /\ pc = "idle"
  /\ pc' = "returned"
  /\ \E verr \in Precheck(prompt, opts) :
              IF verr # Nil
                THEN /\ ret' = Return("error", Nil, verr)
                     /\ UNCHANGED <<execLog, execErr, procState, rpc>>
                ELSE /\ execLog' = Append(execLog,
                          [mode |-> "ExecuteStream", name |-> Executable(opts),
                           args |-> QueryStreamArgs(opts),
                           stdin |-> prompt, workingDir |-> ""])
                     /\ \E out \in StartOutcomes(callerCancelled) :
                          IF out # Nil
                            THEN /\ execErr' = out
                                 /\ ret' = Return("error", Nil, ExecError(out))
                                 /\ UNCHANGED <<procState, rpc>>
                            ELSE /\ procState' = "running"
                                 /\ rpc' = "scan"
                                 /\ ret' = Return("stream", Nil, Nil)
                                 /\ UNCHANGED execErr
  /\ UNCHANGED <<callVars, libVars, callerCancelled, exitCode, wrote, reaped,
                 rd, cur, readFailed, closeCalls, pipeClosed, handleCloses,
                 closeRet, chanClosed, consumerVars, cancelInvoked>>

\* ClaudeClient.QueryStream: the whole call; on success the reader goroutine
\* is started (rpc = "scan") and the stream is returned.
QueryStream ==
  /\ pc = "idle"
  /\ pc' = "returned"
  /\ \E verr \in Precheck(prompt, opts) :
              IF verr # Nil
                THEN /\ ret' = Return("error", Nil, verr)
                     /\ UNCHANGED <<execLog, execErr, procState, rpc,
                                    cancelInvoked>>
                ELSE /\ execLog' = Append(execLog,
                          [mode |-> "ExecuteStream", name |-> Executable(opts),
                           args |-> QueryStreamArgs(opts),
                           stdin |-> prompt, workingDir |-> ""])
                     /\ \E out \in StartOutcomes(callerCancelled) :
                          IF out # Nil
                            THEN /\ cancelInvoked' = TRUE
                                 /\ execErr' = out
                                 /\ ret' = Return("error", Nil, ExecError(out))
                                 /\ UNCHANGED <<procState, rpc>>
                            ELSE /\ procState' = "running"
                                 /\ rpc' = "scan"
                                 /\ ret' = Return("stream", Nil, Nil)
                                 /\ UNCHANGED <<execErr, cancelInvoked>>
  /\ UNCHANGED <<callVars, libVars, callerCancelled, exitCode, wrote, reaped, rd, cur,
                 readFailed, closeCalls, pipeClosed, handleCloses, closeRet,
                 chanClosed, consumerVars>>

\* The directory the process is started in: cmd.Dir is set when the
\* executor is given a non-empty working directory, and the caller's
\* directory is inherited otherwise.
Inherited == "(inherited)"
CmdDir(workingDir) == IF workingDir # "" THEN workingDir ELSE Inherited

\* --- the subprocess
\* The lines the process can print as its i-th: pc = "executing" is the
\* process of Query, any other the process of QueryStream.
OutputLines(at, i) ==
  IF at = "executing" THEN StdoutLines(i) \cup Documents ELSE StdoutLines(i)

\* The process writes one line to its stdout (fd 1).  The write fails once
\* the read end of the pipe is closed.
ProcWrite ==
  /\ procState = "running"
  /\ Len(Written(wrote, 1)) < MaxLines
  /\ ~pipeClosed
  /\ \E l \in OutputLines(pc, Len(Written(wrote, 1)) + 1) :
       wrote' = Append(wrote, [fd |-> 1, line |-> l])
  /\ UNCHANGED <<callVars, libVars, callerCancelled, pc, ret, execLog, execErr,
                 procState, exitCode, readerVars, cancelInvoked, closeCalls,
                 consumerVars>>

\* The process exits by itself, with or without a last diagnostic on its
\* stderr (fd 2).
ProcExit ==
  /\ procState = "running"
  /\ procState' = "exited"
  /\ exitCode' \in ExitCodes
  /\ \E diag \in Diagnostics :
       wrote' = wrote \o [i \in 1..Len(diag) |-> [fd |-> 2, line |-> diag[i]]]
  /\ UNCHANGED <<callVars, libVars, callerCancelled, pc, ret, execLog, execErr,
                 readerVars, cancelInvoked, closeCalls, consumerVars>>

\* Variant: only the streaming process is started under the context.
KillStreamsOnly ==
  /\ procState = "running"
  /\ pc # "executing"
  /\ StreamCtxDone
  /\ procState' = "killed"
  /\ exitCode' = -1
  /\ UNCHANGED <<callVars, libVars, callerCancelled, pc, ret, execLog, execErr,
                 wrote, readerVars, cancelInvoked, closeCalls, consumerVars>>

\* exec.CommandContext: the process is killed when its context is done; a
\* killed process reports exit code -1.
Kill ==
  /\ procState = "running"
  /\ StreamCtxDone
  /\ procState' = "killed"
  /\ exitCode' = -1
  /\ UNCHANGED <<callVars, libVars, callerCancelled, pc, ret, execLog, execErr, wrote,
                 readerVars, cancelInvoked, closeCalls, consumerVars>>

\* --- the reader goroutine of QueryStream
\* Variant: no line counts as blank.
IsBlankNever(line) == FALSE

\* The blank-line test of the scan loop.
IsBlank(line) == line.raw = ""

\* Variant: a line that fails to decode is skipped like a blank one.
OnLineSkipMalformed(line) ==
  LET p == ParseMessage(line) IN
  IF IsBlank(line) THEN [rpc |-> "scan", item |-> Nil]
  ELSE IF p.Err # Nil
    THEN [rpc |-> "scan", item |-> Nil]
    ELSE [rpc |-> "send_msg", item |-> MessageOrError(p.Message, Nil)]

\* Variant: a line that fails to decode ends the reader with no error item.
OnLineDropError(line) ==
  LET p == ParseMessage(line) IN
  IF IsBlank(line) THEN [rpc |-> "scan", item |-> Nil]
  ELSE IF p.Err # Nil
    THEN [rpc |-> "cancel", item |-> Nil]
    ELSE [rpc |-> "send_msg", item |-> MessageOrError(p.Message, Nil)]

\* Variant: there is no blank test; every line goes to the parser.
OnLineParseBlank(line) ==
  LET p == ParseMessage(line) IN
  IF p.Err # Nil
    THEN [rpc |-> "send_parse_err", item |-> MessageOrError(Nil, p.Err)]
    ELSE [rpc |-> "send_msg", item |-> MessageOrError(p.Message, Nil)]

\* The body of the scan loop for one line: a blank line is skipped, any
\* other line is decoded and the message, or the decode error, is offered.
OnLine(line) ==
  LET p == ParseMessage(line) IN
  IF IsBlank(line) THEN [rpc |-> "scan", item |-> Nil]
  ELSE IF p.Err # Nil
    THEN [rpc |-> "send_parse_err", item |-> MessageOrError(Nil, p.Err)]
    ELSE [rpc |-> "send_msg", item |-> MessageOrError(p.Message, Nil)]

\* Variant: the reader reads the next line while a message is still on
\* offer, as over a buffered channel.
ScanAhead ==
  /\ rpc \in {"scan", "send_msg"}
  /\ IF rd < Len(Stdout)
       THEN LET r == OnLine(Stdout[rd + 1])
            IN  /\ rd' = rd + 1
                /\ rpc' = r.rpc
                /\ cur' = IF r.item = Nil THEN cur ELSE r.item
       ELSE /\ procState \in {"exited", "killed"}
            /\ rpc' = "cancel"
            /\ UNCHANGED <<rd, cur>>
  /\ UNCHANGED <<callVars, libVars, callerCancelled, pc, ret, execLog, execErr,
                 procVars, reaped, readFailed, cancelInvoked, closeCalls,
                 pipeClosed, handleCloses, closeRet, chanClosed, consumerVars>>

\* Variant: the scanner has no largest token.
TooLongNever(l) == FALSE

\* The scanner cannot return the line: it does not fit the largest token.
\* Of the lines above only LLong is that long.
TooLong(l) == l = LLong

\* bufio.ErrTooLong
ErrTooLong == PlainError("bufio.Scanner: token too long")

\* One iteration of `for scanner.Scan()` up to the next send: the scanner
\* returns the next line, or reports the end of the output once the process
\* has ended and every line was returned.  With no line to return and the
\* process still running the read blocks.
Scan ==
  /\ rpc = "scan"
  /\ IF rd < Len(Stdout)
       THEN IF TooLong(Stdout[rd + 1])
              THEN /\ readFailed' = TRUE
                   /\ cur' = MessageOrError(Nil,
                                Errorf("error reading stream", ErrTooLong))
                   /\ rpc' = "send_read_err"
                   /\ UNCHANGED rd
              ELSE LET r == OnLine(Stdout[rd + 1])
                   IN  /\ rd' = rd + 1
                       /\ rpc' = r.rpc
                       /\ cur' = IF r.item = Nil THEN cur ELSE r.item
                       /\ UNCHANGED readFailed
       ELSE /\ procState \in {"exited", "killed"}
            /\ rpc' = "cancel"
            /\ UNCHANGED <<rd, cur, readFailed>>
  /\ UNCHANGED <<callVars, libVars, callerCancelled, pc, ret, execLog, execErr,
                 procVars, reaped, cancelInvoked, closeCalls, pipeClosed,
                 handleCloses, closeRet, chanClosed, consumerVars>>

\* What the scanner holds of the line it was reading when a read fails:
\* nothing (the failure came at a line boundary), or the start of a line
\* whose end never came.
Fragments == {Nil, LPartial}

\* A read on the output handle fails with an error other than io.EOF.  The
\* scanner first returns the bytes it holds as a last line (bufio.ScanLines
\* at the end of input), which goes through the loop body like any other
\* line; with nothing held Scan returns false and scanner.Err() is the
\* error.
ScanFail ==
  /\ rpc = "scan"
  /\ readFailed' = TRUE
  /\ \E frag \in Fragments :
       IF frag = Nil
         THEN /\ cur' = MessageOrError(Nil, Errorf("error reading stream",
                                                   PlainError("read failed")))
              /\ rpc' = "send_read_err"
         ELSE /\ cur' = OnLine(frag).item
              /\ rpc' = OnLine(frag).rpc
  /\ UNCHANGED <<callVars, libVars, callerCancelled, pc, ret, execLog, execErr,
                 procVars, reaped, rd, cancelInvoked, closeCalls, pipeClosed,
                 handleCloses, closeRet, chanClosed, consumerVars>>

\* Variant: the reader goes on scanning after an error item too.
AfterSendContinue(at) == "scan"

\* Where the reader goes after a send: on to the next line after a message,
\* to its deferred calls after an error item.
AfterSend(at) == IF at = "send_msg" THEN "scan" ELSE "cancel"

\* The case `messages <- item` of a select: the channel is unbuffered, so
\* the send happens when the consumer receives.
Receive ==
  /\ rpc \in SendStates
  /\ ~abandoned
  /\ received' = Append(received, cur)
  /\ rpc' = AfterSend(rpc)
  /\ UNCHANGED <<callVars, libVars, callerCancelled, pc, ret, execLog, execErr,
                 procVars, reaped, rd, cur, readFailed, cancelInvoked,
                 closeCalls, pipeClosed, handleCloses, closeRet, chanClosed,
                 sawClosed, abandoned>>

\* Variant: only the send of a message watches the context.
SendCancelledMessagesOnly ==
  /\ rpc = "send_msg"
  /\ StreamCtxDone
  /\ rpc' = "cancel"
  /\ UNCHANGED <<callVars, libVars, callerCancelled, pc, ret, execLog, execErr,
                 procVars, reaped, rd, cur, readFailed, cancelInvoked,
                 closeCalls, pipeClosed, handleCloses, closeRet, chanClosed,
                 consumerVars>>

\* Variant: on cancellation the item is dropped and the loop goes on to the
\* next line.
SendCancelledKeepsReading ==
  /\ rpc \in SendStates
  /\ StreamCtxDone
  /\ rpc' = IF rpc = "send_msg" THEN "scan" ELSE "cancel"
  /\ UNCHANGED <<callVars, libVars, callerCancelled, pc, ret, execLog, execErr,
                 procVars, reaped, rd, cur, readFailed, cancelInvoked,
                 closeCalls, pipeClosed, handleCloses, closeRet, chanClosed,
                 consumerVars>>

\* The case `<-streamCtx.Done()` of a select: the item is dropped and the
\* reader returns.
SendCancelled ==
  /\ rpc \in SendStates
  /\ StreamCtxDone
  /\ rpc' = "cancel"
  /\ UNCHANGED <<callVars, libVars, callerCancelled, pc, ret, execLog, execErr,
                 procVars, reaped, rd, cur, readFailed, cancelInvoked,
                 closeCalls, pipeClosed, handleCloses, closeRet, chanClosed,
                 consumerVars>>

\* Variant: the reader leaves without calling cancel.
DeferCancelSkipped ==
  /\ rpc = "cancel"
  /\ rpc' = "close"
  /\ UNCHANGED <<callVars, libVars, callerCancelled, pc, ret, execLog, execErr,
                 procVars, reaped, rd, cur, readFailed, cancelInvoked,
                 closeCalls, pipeClosed, handleCloses, closeRet, chanClosed,
                 consumerVars>>

\* defer cancel()
DeferCancel ==
  /\ rpc = "cancel"
  /\ cancelInvoked' = TRUE
  /\ rpc' = "close"
  /\ UNCHANGED <<callVars, libVars, callerCancelled, pc, ret, execLog, execErr,
                 procVars, reaped, rd, cur, readFailed, closeCalls,
                 pipeClosed, handleCloses, closeRet, chanClosed, consumerVars>>

\* defer stream.Close(), first half: streamReader.Close closes the pipe and
\* calls cmd.Wait.
DeferClose ==
  /\ rpc = "close"
  /\ pipeClosed' = TRUE
  /\ handleCloses' = handleCloses + 1
  /\ rpc' = "wait"
  /\ UNCHANGED <<callVars, libVars, callerCancelled, pc, ret, execLog, execErr,
                 procVars, reaped, rd, cur, readFailed, cancelInvoked,
                 closeCalls, closeRet, chanClosed, consumerVars>>

\* Variant: Close returns once the pipe is closed, without cmd.Wait.
DeferCloseWithoutWait ==
  /\ rpc = "wait"
  /\ rpc' = "close_chan"
  /\ UNCHANGED <<callVars, libVars, callerCancelled, pc, ret, execLog, execErr,
                 procVars, reaped, rd, cur, readFailed, cancelInvoked,
                 closeCalls, pipeClosed, handleCloses, closeRet, chanClosed,
                 consumerVars>>

\* Variant: the reader hands the error of Close to the consumer.
DeferWaitReportsExit ==
  /\ rpc = "wait"
  /\ procState \in {"exited", "killed"}
  /\ reaped' = TRUE
  /\ closeRet' = streamReaderClose(exitCode, wrote)
  /\ received' = IF closeRet' # Nil
                   THEN Append(received, MessageOrError(Nil, closeRet'))
                   ELSE received
  /\ rpc' = "close_chan"
  /\ UNCHANGED <<callVars, libVars, callerCancelled, pc, ret, execLog, execErr,
                 procVars, rd, cur, readFailed, cancelInvoked, closeCalls,
                 pipeClosed, handleCloses, chanClosed, sawClosed, abandoned>>

\* defer stream.Close(), second half: cmd.Wait returns when the process has
\* ended; the error streamReader.Close returns is dropped by the reader.
DeferWait ==
  /\ rpc = "wait"
  /\ procState \in {"exited", "killed"}
  /\ reaped' = TRUE
  /\ closeRet' = streamReaderClose(exitCode, wrote)
  /\ rpc' = "close_chan"
  /\ UNCHANGED <<callVars, libVars, callerCancelled, pc, ret, execLog, execErr,
                 procVars, rd, cur, readFailed, cancelInvoked, closeCalls,
                 pipeClosed, handleCloses, chanClosed, consumerVars>>

\* defer close(messages)
DeferCloseChan ==
  /\ rpc = "close_chan"
  /\ chanClosed' = TRUE
  /\ rpc' = "done"
  /\ UNCHANGED <<callVars, libVars, callerCancelled, pc, ret, execLog, execErr,
                 procVars, reaped, rd, cur, readFailed, cancelInvoked,
                 closeCalls, pipeClosed, handleCloses, closeRet, consumerVars>>

\* --- the consumer and the caller
\* A receive on the closed channel.
ReceiveClosed ==
  /\ chanClosed
  /\ ~abandoned
  /\ ~sawClosed
  /\ sawClosed' = TRUE
  /\ UNCHANGED <<callVars, libVars, callerCancelled, pc, ret, execLog, execErr,
                 procVars, readerVars, cancelInvoked, closeCalls, received,
                 abandoned>>

\* The consumer stops receiving from Messages.
Abandon ==
  /\ ret.kind = "stream"
  /\ ~abandoned
  /\ ~sawClosed
  /\ abandoned' = TRUE
  /\ UNCHANGED <<callVars, libVars, callerCancelled, pc, ret, execLog, execErr,
                 procVars, readerVars, cancelInvoked, closeCalls, received,
                 sawClosed>>

\* The MessageStream the caller holds once the call has returned: the one
\* QueryStream returned, whose cancel is the derived context's cancel
\* function, or else one the caller made itself (MessageStream{}), whose
\* cancel is nil.
HasCancel == ret.kind = "stream"

\* Variant: Close may be called once only; a second call panics (as closing
\* a done channel twice would).
CloseOnce ==
  /\ pc = "returned"
  /\ closeCalls = 0
  /\ closeCalls < MaxCloseCalls
  /\ closeCalls' = closeCalls + 1
  /\ cancelInvoked' = IF HasCancel THEN TRUE ELSE cancelInvoked
  /\ UNCHANGED <<callVars, libVars, callerCancelled, pc, ret, execLog,
                 execErr, procVars, readerVars, consumerVars>>

\* Variant: MessageStream.Close also closes the output handle.
CloseClosesHandle ==
  /\ pc = "returned"
  /\ closeCalls < MaxCloseCalls
  /\ closeCalls' = closeCalls + 1
  /\ cancelInvoked' = IF HasCancel THEN TRUE ELSE cancelInvoked
  /\ pipeClosed' = IF HasCancel THEN TRUE ELSE pipeClosed
  /\ handleCloses' = IF HasCancel THEN handleCloses + 1 ELSE handleCloses
  /\ UNCHANGED <<callVars, libVars, callerCancelled, pc, ret, execLog, execErr,
                 procVars, rpc, rd, cur, readFailed, closeRet, chanClosed,
                 reaped, consumerVars>>

\* MessageStream.Close: `if s.cancel != nil { s.cancel() }`.
Close ==
  /\ pc = "returned"
  /\ closeCalls < MaxCloseCalls
  /\ closeCalls' = closeCalls + 1
  /\ cancelInvoked' = IF HasCancel THEN TRUE ELSE cancelInvoked
  /\ UNCHANGED <<callVars, libVars, callerCancelled, pc, ret, execLog, execErr,
                 procVars, readerVars, consumerVars>>

\* The caller cancels the context it passed to the call.
CancelCaller ==
  /\ ~callerCancelled
  /\ callerCancelled' = TRUE
  /\ UNCHANGED <<callVars, libVars, pc, ret, execLog, execErr, procVars, readerVars,
                 cancelInvoked, closeCalls, consumerVars>>

Reader ==
  \/ Scan
  \/ SendCancelled
  \/ DeferCancel
  \/ DeferClose
  \/ DeferWait
  \/ DeferCloseChan

Next ==
  \/ Query
  \/ QueryReturn
  \/ QueryStream
  \/ ProcWrite
  \/ ProcExit
  \/ Kill
  \/ Scan
  \/ ScanFail
  \/ Receive
  \/ SendCancelled
  \/ DeferCancel
  \/ DeferClose
  \/ DeferWait
  \/ DeferCloseChan
  \/ ReceiveClosed
  \/ Abandon
  \/ Close
  \/ CancelCaller

Spec == Init /\ [][Next]_vars

\* The scheduler runs the reader goroutine whenever it can take a step, and
\* the executor's context watcher kills the process once the context is done.
FairSpec == Spec /\ WF_vars(Reader) /\ WF_vars(Kill)

\* In addition the process ends by itself and the consumer keeps receiving
\* for as long as it has not stopped.
LiveSpec ==
  FairSpec /\ WF_vars(ProcExit) /\ WF_vars(Receive) /\ WF_vars(ReceiveClosed)

\* ------------------------------------------------- direct library calls
\* The lines handed to ParseMessage directly: the records of every type
\* with and without a session id, a record whose session id is a number,
\* records with an unknown and with no discriminator, null, a number, text
\* that is not JSON, and the empty string.
LibLines ==
  {LRecord(t, sid) : t \in MessageTypes \cup {"unknown"},
                     sid \in {Absent, JString("test-session"), JNumber("5")}}
  \cup {LNoType, LNull, LScalar, LBad, LEmpty, LSpace}

\* Options values with every subset of the thirteen flag-bearing fields set.
FlagOptions ==
  { [EmptyOptions EXCEPT !.Model = m, !.FallbackModel = f, !.Continue = c,
                         !.Resume = r, !.CustomSystemPrompt = sp,
                         !.AppendSystemPrompt = ap, !.AllowedTools = at,
                         !.DisallowedTools = dt, !.MaxThinkingTokens = mt,
                         !.MaxTurns = tu, !.PermissionMode = pm,
                         !.PermissionPromptToolName = pt, !.MCPServers = ms] :
      m \in {"", "claude-3-opus"}, f \in {"", "claude-3-sonnet"},
      c \in BOOLEAN, r \in {"", "session-123"},
      sp \in {"", "You are helpful"}, ap \in {"", "Be concise"},
      at \in {<<>>, <<"Read", "Write">>}, dt \in {<<>>, <<"Bash">>},
      mt \in {<<>>, <<0>>}, tu \in {<<>>, <<10>>},
      pm \in {"", PermissionAcceptEdits}, pt \in {"", "custom-tool"},
      ms \in {<<>>, [n \in {"a"} |-> "stdio"]} }

\* The *Options values handed to BuildArgs and Validate directly.
LibOptions ==
  OptionsValues \cup {<<o>> : o \in FlagOptions}
  \cup {<<[EmptyOptions EXCEPT !.PermissionMode = pm]>> :
          pm \in {PermissionDefault, PermissionBypassPermissions,
                  PermissionPlan}}

\* A stand-in for the default client (the tests replace defaultClient by
\* one): each of its methods returns a fixed value, whatever it is given.
MockClients ==
  { [kind |-> "mock", Query |-> q, QueryStream |-> qs] :
      q \in { Return("result", [kind |-> "ResultMessage", Type |-> "result",
                                SessionID |-> "test-session"], Nil),
              Return("error", Nil, PlainError("client error")) },
      qs \in { Return("stream", [kind |-> "MessageStream", cancel |-> Nil],
                      Nil),
               Return("error", Nil, PlainError("stream error")) } }

\* A behaviour of direct calls decodes one line, works on one Options value
\* or calls one package function with a stand-in default client; no process
\* is started.
LibInit ==
  /\ \/ (inputLine \in LibLines /\ opts = <<>> /\ prompt = ""
         /\ defaultClient = NewClient)
     \/ (inputLine = Nil /\ opts \in LibOptions /\ prompt = ""
         /\ defaultClient = NewClient)
     \/ (inputLine = Nil /\ opts \in {<<>>, <<RichOptions>>}
         /\ prompt \in Prompts /\ defaultClient \in MockClients)
  /\ Fresh

\* A call of ParseMessage(inputLine).
CallParseMessage ==
  /\ inputLine # Nil
  /\ parsed = <<>>
  /\ parsed' = <<ParseMessage(inputLine)>>
  /\ UNCHANGED <<callVars, callerCancelled, pc, ret, execLog, execErr,
                 procVars, readerVars, cancelInvoked, closeCalls,
                 consumerVars, inputLine, built, validated, defaultClient,
                 clientCalls>>

\* A call of ArgumentBuilder.BuildArgs(opts).
CallBuildArgs ==
  /\ built = <<>>
  /\ built' = <<BuildArgs(opts)>>
  /\ UNCHANGED <<callVars, callerCancelled, pc, ret, execLog, execErr,
                 procVars, readerVars, cancelInvoked, closeCalls,
                 consumerVars, inputLine, parsed, validated, defaultClient,
                 clientCalls>>

\* A call of ArgumentBuilder.Validate(opts).
CallValidate ==
  /\ validated = <<>>
  /\ \E err \in Validate(opts) : validated' = <<err>>
  /\ UNCHANGED <<callVars, callerCancelled, pc, ret, execLog, execErr,
                 procVars, readerVars, cancelInvoked, closeCalls,
                 consumerVars, inputLine, parsed, built, defaultClient,
                 clientCalls>>

\* Variant: the package function swaps nil options for an empty record
\* before it calls the client.
PackageArgsDefaulted(p, o) ==
  [prompt |-> p, opts |-> IF o = <<>> THEN <<EmptyOptions>> ELSE o]

\* The arguments the package functions hand to the default client: their
\* own (the context is passed on as it is).
PackageArgs(p, o) == [prompt |-> p, opts |-> o]

\* The package function Query: return defaultClient.Query(ctx, prompt, opts).
PackageQuery ==
  /\ defaultClient.kind = "mock"
  /\ pc = "idle"
  /\ pc' = "returned"
  /\ clientCalls' = Append(clientCalls,
                           [method |-> "Query"] @@ PackageArgs(prompt, opts))
  /\ ret' = defaultClient.Query
  /\ UNCHANGED <<callVars, callerCancelled, execLog, execErr, procVars,
                 readerVars, cancelInvoked, closeCalls, consumerVars,
                 inputLine, parsed, built, validated, defaultClient>>

\* The package function QueryStream:
\* return defaultClient.QueryStream(ctx, prompt, opts).
PackageQueryStream ==
  /\ defaultClient.kind = "mock"
  /\ pc = "idle"
  /\ pc' = "returned"
  /\ clientCalls' = Append(clientCalls, [method |-> "QueryStream"]
                                          @@ PackageArgs(prompt, opts))
  /\ ret' = defaultClient.QueryStream
  /\ UNCHANGED <<callVars, callerCancelled, execLog, execErr, procVars,
                 readerVars, cancelInvoked, closeCalls, consumerVars,
                 inputLine, parsed, built, validated, defaultClient>>

LibNext ==
  \/ CallParseMessage
  \/ CallBuildArgs
  \/ CallValidate
  \/ PackageQuery
  \/ PackageQueryStream

LibSpec == LibInit /\ [][LibNext]_vars

\* ------------------------------------------- the executor, used directly
\* A caller of DefaultCommandExecutor.ExecuteStream that holds the output
\* handle itself: it reads lines from it and calls its Close.  pc is "open"
\* while the handle is open, "closing" inside the first Close, "closed"
\* after it; rd counts the lines read and closeRet is what the last Close
\* returned.
ExecInit ==
  /\ prompt \in Prompts
  /\ opts = <<>>
  /\ inputLine = Nil
  /\ defaultClient = NewClient
  /\ Fresh

\* What cmd.Start can come to for the default executor: nil or a plain
\* error.
DefaultStartOutcomes(ctxDone) ==
  {o \in StartOutcomes(ctxDone) : o = Nil \/ o.kind # "ProcessError"}

\* DefaultCommandExecutor.ExecuteStream: the process is started under the
\* caller's context and the handle returned, or the start error.
ExecuteStream ==
  /\ pc = "idle"
  /\ execLog' = Append(execLog,
                       [mode |-> "ExecuteStream", name |-> "claude",
                        args |-> <<>>, stdin |-> prompt, workingDir |-> ""])
  /\ \E out \in DefaultStartOutcomes(callerCancelled) :
       IF out # Nil
         THEN /\ pc' = "returned"
              /\ execErr' = out
              /\ ret' = Return("error", Nil, out)
              /\ UNCHANGED procState
         ELSE /\ pc' = "open"
              /\ procState' = "running"
              /\ ret' = Return("handle", Nil, Nil)
              /\ UNCHANGED execErr
  /\ UNCHANGED <<callVars, libVars, callerCancelled, exitCode, wrote,
                 readerVars, cancelInvoked, closeCalls, consumerVars>>

\* streamReader.Read, as far as one more line of the output.
streamReaderRead ==
  /\ pc = "open"
  /\ rd < Len(Stdout)
  /\ rd' = rd + 1
  /\ UNCHANGED <<callVars, libVars, callerCancelled, pc, ret, execLog, execErr,
                 procVars, rpc, cur, readFailed, pipeClosed, handleCloses,
                 closeRet, chanClosed, reaped, cancelInvoked, closeCalls,
                 consumerVars>>

\* The first streamReader.Close, first half: s.reader.Close() closes the
\* pipe, then cmd.Wait is called.
streamReaderCloseBegin ==
  /\ pc = "open"
  /\ pc' = "closing"
  /\ pipeClosed' = TRUE
  /\ handleCloses' = handleCloses + 1
  /\ UNCHANGED <<callVars, libVars, callerCancelled, ret, execLog, execErr,
                 procVars, rpc, rd, cur, readFailed, closeRet, chanClosed,
                 reaped, cancelInvoked, closeCalls, consumerVars>>

\* The first streamReader.Close, second half: cmd.Wait returns when the
\* process has ended, and Close returns nil or the ProcessError.
streamReaderCloseReturn ==
  /\ pc = "closing"
  /\ procState \in {"exited", "killed"}
  /\ pc' = "closed"
  /\ reaped' = TRUE
  /\ closeRet' = streamReaderClose(exitCode, wrote)
  /\ UNCHANGED <<callVars, libVars, callerCancelled, ret, execLog, execErr,
                 procVars, rpc, rd, cur, readFailed, pipeClosed, handleCloses,
                 chanClosed, cancelInvoked, closeCalls, consumerVars>>

\* cmd.Wait on a command that was already waited for.
WaitAlreadyCalled == PlainError("exec: Wait was already called")

\* streamReader.Close on a handle already closed: s.reader.Close() fails
\* and its error is ignored; cmd.Wait returns at once with an error that is
\* no *exec.ExitError, which Close returns as it is.
streamReaderCloseAgain ==
  /\ pc = "closed"
  /\ handleCloses < MaxCloseCalls
  /\ handleCloses' = handleCloses + 1
  /\ closeRet' = WaitAlreadyCalled
  /\ UNCHANGED <<callVars, libVars, callerCancelled, pc, ret, execLog, execErr,
                 procVars, rpc, rd, cur, readFailed, pipeClosed, chanClosed,
                 reaped, cancelInvoked, closeCalls, consumerVars>>

ExecNext ==
  \/ ExecuteStream
  \/ ProcWrite
  \/ ProcExit
  \/ Kill
  \/ CancelCaller
  \/ streamReaderRead
  \/ streamReaderCloseBegin
  \/ streamReaderCloseReturn
  \/ streamReaderCloseAgain

ExecSpec == ExecInit /\ [][ExecNext]_vars

\* ----------------------------------------------------------------- claims
\* Everything a finished stream leaves behind: the output handle is closed,
\* the process is reaped, the derived context is done, the reader goroutine
\* has terminated and Messages is closed.
CleanedUp ==
  /\ pipeClosed
  /\ reaped
  /\ StreamCtxDone
  /\ rpc = "done"
  /\ chanClosed

Started == ret.kind = "stream"

ReaderExiting == rpc \in {"cancel", "close", "wait", "close_chan", "done"}

\* Nothing but the reader itself has cancelled the stream, and the consumer
\* is still receiving.
Undisturbed == ~callerCancelled /\ closeCalls = 0 /\ ~abandoned

\* The stdout lines the scanner has returned so far.
LinesRead == SubSeq(Stdout, 1, rd)

NonEmpty(ls) == SelectSeq(ls, LAMBDA l : l.raw # "")

WellFormed(l) ==
  /\ l.json = "object"
  /\ l.type \in MessageTypes
  /\ l.session_id.json \in {"absent", "string"}

\* The item a non-empty line decodes to: the message of its type for a
\* well-formed line, the parse error carrying the line otherwise.
ItemOf(l) ==
  IF WellFormed(l)
    THEN [Message |-> [kind |-> "message", messageType |-> l.type,
                        Type |-> l.type, SessionID |-> l.session_id.text,
                        line |-> l.raw],
          Err |-> Nil]
    ELSE [Message |-> Nil,
          Err |-> [kind |-> "ParseError", Line |-> l.raw,
                   Message |->
                     IF l.json \notin {"object", "null"} THEN "invalid JSON"
                     ELSE IF l.type \notin MessageTypes
                       THEN "unknown message type: " \o l.type
                     ELSE IF l.type = "permission_request"
                       THEN "failed to parse permission request message"
                     ELSE "failed to parse " \o l.type \o " message"]]

ItemsOf(ls) == [i \in 1..Len(ls) |-> ItemOf(ls[i])]

IsPrefix(a, b) == Len(a) <= Len(b) /\ \A i \in 1..Len(a) : a[i] = b[i]

MessageItems(items) == SelectSeq(items, LAMBDA x : x.Err = Nil)
ErrorItems(items) == SelectSeq(items, LAMBDA x : x.Err # Nil)

\* C1: for a started stream, each of cancelling the caller's context, calling
\* MessageStream.Close and the reader leaving its loop leads to the output
\* handle closed, the process reaped, the derived context done, the reader
\* terminated and Messages closed, whether or not the consumer receives.
C1_LeakSafetyOnCancellation ==
  ((Started /\ (callerCancelled \/ closeCalls > 0)) \/ ReaderExiting)
    ~> CleanedUp

\* A cancelled stream whose consumer had stopped receiving, its process
\* killed before it ended by itself, fully cleaned up.
C1_Witness ==
  /\ Started /\ callerCancelled /\ abandoned
  /\ procState = "killed"
  /\ CleanedUp

\* C2: the message items received are, in order, a prefix of the items the
\* non-empty lines read from the process decode to: no line is reordered,
\* duplicated or skipped over.
C2_OrderedGapFreeDelivery ==
  IsPrefix(MessageItems(received), ItemsOf(NonEmpty(LinesRead)))

\* Two messages received, in line order, on a stream that was then closed.
C2_Witness ==
  /\ Len(MessageItems(received)) = 2
  /\ rd = 2
  /\ closeCalls > 0

\* C3: Messages carries at most one error item, and nothing after it.
C3_AtMostOneErrorLast ==
  \A i \in 1..Len(received) : received[i].Err # Nil => i = Len(received)

\* A message, then an error item, then the channel closed.
C3_Witness ==
  /\ Len(received) = 2
  /\ received[2].Err # Nil
  /\ sawClosed

\* The position of the first malformed line of the output (0: none).
FirstMalformed(ls) ==
  IF \E i \in 1..Len(ls) : ls[i].raw # "" /\ ~WellFormed(ls[i])
    THEN CHOOSE i \in 1..Len(ls) :
           /\ ls[i].raw # "" /\ ~WellFormed(ls[i])
           /\ \A j \in 1..(i - 1) : ls[j].raw = "" \/ WellFormed(ls[j])
    ELSE 0

\* C4: with a consumer that keeps receiving, no cancellation and no read
\* failure, an output whose first malformed line follows k well-formed lines
\* yields exactly the k messages, then the one ParseError item for that
\* line, then closure; the reader never reads past the malformed line.
C4_StreamingErrorTruncation ==
  LET m == FirstMalformed(Stdout) IN
  (sawClosed /\ Undisturbed /\ ~readFailed /\ m > 0) =>
     /\ received = ItemsOf(NonEmpty(SubSeq(Stdout, 1, m)))
     /\ Len(ErrorItems(received)) = 1
     /\ rd = m

\* One message and one error item received from an output whose malformed
\* line is its second.
C4_Witness ==
  /\ sawClosed /\ Undisturbed /\ ~readFailed
  /\ FirstMalformed(Stdout) = 2
  /\ Len(received) = 2
  /\ received[1].Err = Nil /\ received[2].Err # Nil

\* The output holds no malformed line.
AllWellFormed(ls) == \A i \in 1..Len(ls) : ls[i].raw = "" \/ WellFormed(ls[i])

Disturbed == callerCancelled \/ closeCalls > 0 \/ abandoned \/ readFailed

\* C5: a started stream whose output holds only well-formed and empty lines,
\* with no read failure, no cancellation and a consumer that keeps
\* receiving, comes to the point where the consumer has received exactly the
\* messages of the non-empty lines, in order, and has seen Messages closed.
C5_StreamingCompletion ==
  Started ~> \/ Disturbed
             \/ ~AllWellFormed(Stdout)
             \/ /\ sawClosed
                /\ procState = "exited"
                /\ received = ItemsOf(NonEmpty(Stdout))
                /\ ErrorItems(received) = <<>>

\* Two lines, one of them empty, completely consumed.
C5_Witness ==
  /\ ~Disturbed /\ AllWellFormed(Stdout)
  /\ sawClosed
  /\ Len(Stdout) = 2 /\ Len(received) = 1
  /\ received[1].Err = Nil

OffendingFields(o) ==
  IF o = <<>> THEN {}
  ELSE (IF o[1].MaxThinkingTokens # <<>> /\ o[1].MaxThinkingTokens[1] < 0
          THEN {"MaxThinkingTokens"} ELSE {})
       \cup (IF o[1].MaxTurns # <<>> /\ o[1].MaxTurns[1] < 0
          THEN {"MaxTurns"} ELSE {})
       \cup {"MCPServers[" \o n \o "]" :
               n \in {x \in DOMAIN o[1].MCPServers : o[1].MCPServers[x] = "nil"}}
       \cup (IF o[1].PermissionMode \notin
                  {"", "default", "acceptEdits", "bypassPermissions", "plan"}
          THEN {"PermissionMode"} ELSE {})

\* No executor call, no process, no reader goroutine, no stream.
NothingStarted ==
  /\ execLog = <<>>
  /\ procState = "none"
  /\ rpc = "none"
  /\ ret.kind # "stream"
  /\ ~chanClosed /\ ~cancelInvoked

\* C7: a call with an empty prompt returns a ConfigError for field "prompt",
\* whatever the options, and starts nothing.
C7_EmptyPromptRejection ==
  (pc = "returned" /\ prompt = "") =>
     /\ ret.kind = "error"
     /\ ret.val = Nil
     /\ ret.err.kind = "ConfigError"
     /\ ret.err.Field = "prompt"
     /\ NothingStarted

\* An empty prompt rejected although the options are invalid too.
C7_Witness ==
  /\ pc = "returned" /\ prompt = ""
  /\ OffendingFields(opts) # {}
  /\ ret.err.kind = "ConfigError" /\ ret.err.Field = "prompt"

\* C8: a call with a non-empty prompt and options that break a constraint
\* returns a ConfigError whose Field is one of the offending options, and
\* starts nothing.
C8_ValidationPrecedesExecution ==
  (pc = "returned" /\ prompt # "" /\ OffendingFields(opts) # {}) =>
     /\ ret.kind = "error"
     /\ ret.err.kind = "ConfigError"
     /\ ret.err.Field \in OffendingFields(opts)
     /\ NothingStarted

\* A nil MCPServers entry reported by name.
C8_Witness ==
  /\ pc = "returned" /\ prompt # ""
  /\ OffendingFields(opts) = {"MCPServers[b]"}
  /\ ret.err.kind = "ConfigError" /\ ret.err.Field = "MCPServers[b]"

\* C9: a non-zero exit reaches the caller of the executor as a ProcessError
\* with the process's exit code: from Execute with the combined output as
\* Message and no output bytes, from Close on the stream handle with the
\* captured stderr as Message.
C9_NonZeroExitSurfaces ==
  /\ (pc = "returned" /\ Len(execLog) = 1 /\ execLog[1].mode = "Execute"
        /\ procState # "none" /\ exitCode # 0) =>
       /\ execErr = [kind |-> "ProcessError", ExitCode |-> exitCode,
                     Message |-> [i \in 1..Len(wrote) |-> wrote[i].line.raw]]
       /\ ret.kind = "error" /\ ret.val = Nil
  /\ (rpc \in {"close_chan", "done"} /\ exitCode # 0) =>
       closeRet = [kind |-> "ProcessError", ExitCode |-> exitCode,
                   Message |-> Text(Written(wrote, 2))]

\* Exit code 2 with "boom" on stderr after a line on stdout, one-shot.
C9_Witness ==
  /\ pc = "returned" /\ Len(execLog) = 1 /\ execLog[1].mode = "Execute"
  /\ exitCode = 2
  /\ Len(wrote) = 2 /\ wrote[1].fd = 1 /\ wrote[2].fd = 2
  /\ execErr.kind = "ProcessError"

\* C10: a ProcessError from the executor is returned as it is; any other
\* executor error is returned wrapped with context, as an error that is
\* neither a ProcessError nor a ConfigError nor a ParseError.
C10_ErrorPropagation ==
  (pc = "returned" /\ execErr # Nil) =>
     /\ ret.kind = "error"
     /\ IF execErr.kind = "ProcessError"
          THEN ret.err = execErr
          ELSE /\ ret.err.kind \notin {"ProcessError", "ConfigError", "ParseError"}
               /\ ret.err.context = "failed to execute command"
               /\ ret.err.cause = execErr

\* QueryStream handing back the ProcessError its executor returned.
C10_Witness ==
  /\ pc = "returned" /\ Len(execLog) = 1
  /\ execLog[1].mode = "ExecuteStream"
  /\ execErr.kind = "ProcessError"
  /\ ret.err = execErr

\* --- C11
\* Query has returned after handing the call to the executor.
QueryReturned ==
  pc = "returned" /\ Len(execLog) = 1 /\ execLog[1].mode = "Execute"

\* Everything the one-shot process printed, in order, and the lines of it
\* that are not blank.
RawOutput == [i \in 1..Len(wrote) |-> wrote[i].line]
OutputDocs == SelectSeq(RawOutput, LAMBDA l : l.raw \notin {"", " ", "\r"})

\* The output is one well-formed JSON document.
OneDocument == Len(OutputDocs) = 1 /\ OutputDocs[1].json # "invalid"

C12_CloseIdempotent ==
  /\ [](ret.kind = "stream" /\ closeCalls > 0 => cancelInvoked)
  /\ [](pc = "returned" /\ closeCalls < MaxCloseCalls => ENABLED Close)
  /\ [][closeCalls' # closeCalls =>
          /\ closeCalls' = closeCalls + 1
          /\ cancelInvoked' = (cancelInvoked \/ ret.kind = "stream")
          /\ UNCHANGED <<prompt, opts, libVars, callerCancelled, pc, ret,
                         execLog, execErr, procVars, readerVars,
                         consumerVars>>]_vars

\* Close was called twice on a stream whose reader had already finished and
\* closed Messages.
C12_Witness ==
  /\ ret.kind = "stream"
  /\ closeCalls >= 2
  /\ rpc = "done"
  /\ sawClosed

\* --- C13
\* C13: in the streaming path an empty line is never decoded and yields no
\* item: no item received or offered is the decode error of an empty line,
\* the scan step that reads an empty line leaves the reader scanning with
\* nothing offered, and a stream of well-formed and empty lines that ran to
\* its end delivered exactly the records of the lines that are not empty.
C13_BlankLinesNeverRouted ==
  /\ [](\A i \in 1..Len(received) :
          received[i].Err.kind = "ParseError" => received[i].Err.Line # "")
  /\ [](rpc \in SendStates /\ cur.Err.kind = "ParseError"
          => cur.Err.Line # "")
  /\ []((sawClosed /\ Undisturbed /\ ~readFailed /\ AllWellFormed(Stdout))
          => received = ItemsOf(NonEmpty(Stdout)))
  /\ [][(rpc = "scan" /\ rd' = rd + 1 /\ Stdout[rd + 1].raw = "")
          => (rpc' = "scan" /\ cur' = cur /\ received' = received)]_vars

\* An empty line was read and skipped, the record after it delivered, and
\* the reader is scanning again.
C13_Witness ==
  /\ Len(Stdout) = 2
  /\ Stdout[1].raw = ""
  /\ rd = 2
  /\ received = <<ItemOf(Stdout[2])>>
  /\ received[1].Err = Nil
  /\ rpc = "scan"

\* --- C14
\* C14 as stated: for a well-formed JSON line whose type is one of the five
\* discriminators ParseMessage returns the message of that variant and no
\* error.
C14_RoutesEveryKnownType ==
  (parsed # <<>> /\ inputLine.json = "object"
     /\ inputLine.type \in {"user", "assistant", "result", "system",
                            "permission_request"})
    => /\ parsed[1].Err = Nil
       /\ parsed[1].Message.kind = "message"
       /\ parsed[1].Message.messageType = inputLine.type

\* C14, amended: for a well-formed JSON line whose type is one of the five
\* discriminators and whose other fields, where present, have the JSON types
\* of the variant's fields, ParseMessage returns the message of that variant
\* (messageType and Type equal to the discriminator) and no error, an absent
\* field being zero; when a present field has another JSON type it returns
\* a ParseError carrying the line and no message.
C14_RoutesWellTypedRecords ==
  (parsed # <<>> /\ inputLine.json = "object"
     /\ inputLine.type \in {"user", "assistant", "result", "system",
                            "permission_request"})
    => IF inputLine.session_id.json \in {"absent", "string"}
         THEN /\ parsed[1].Err = Nil
              /\ parsed[1].Message.kind = "message"
              /\ parsed[1].Message.messageType = inputLine.type
              /\ parsed[1].Message.Type = inputLine.type
              /\ parsed[1].Message.SessionID =
                   (IF inputLine.session_id.json = "absent" THEN ""
                    ELSE inputLine.session_id.text)
         ELSE /\ parsed[1].Message = Nil
              /\ parsed[1].Err.kind = "ParseError"
              /\ parsed[1].Err.Line = inputLine.raw

\* A permission_request record with no other field was decoded into its
\* variant.
C14_Witness ==
  /\ parsed # <<>>
  /\ inputLine.type = "permission_request"
  /\ inputLine.session_id.json = "absent"
  /\ parsed[1].Err = Nil
  /\ parsed[1].Message.messageType = "permission_request"

\* --- C15
\* C15: for a line that is not well-formed JSON (the empty string too), or
\* whose type is missing or none of the five discriminators, ParseMessage
\* returns no message and a ParseError whose Line is the line itself and
\* whose Message is not empty; whatever the line, it returns a message or an
\* error and never both.
C15_DecodeFailureShape ==
  parsed # <<>> =>
    /\ (parsed[1].Message = Nil) # (parsed[1].Err = Nil)
    /\ (inputLine.json = "invalid"
          \/ inputLine.type \notin {"user", "assistant", "result", "system",
                                    "permission_request"})
         => /\ parsed[1].Message = Nil
            /\ parsed[1].Err.kind = "ParseError"
            /\ parsed[1].Err.Line = inputLine.raw
            /\ parsed[1].Err.Message # ""

\* The empty string was handed to ParseMessage and came back as a ParseError.
C15_Witness ==
  /\ parsed # <<>>
  /\ inputLine.raw = ""
  /\ parsed[1].Err.kind = "ParseError"

\* --- C16
\* The flags in the order the claim fixes.
FlagOrder ==
  <<"--model", "--fallback-model", "--continue", "--resume",
    "--system-prompt", "--append-system-prompt", "--allowed-tools",
    "--disallowed-tools", "--max-thinking-tokens", "--max-turns",
    "--permission-mode", "--permission-prompt-tool-name", "--mcp-servers">>

FlagNames == {FlagOrder[i] : i \in 1..Len(FlagOrder)}

\* The field behind a flag is set in the Options record o.
FlagSet(o, f) ==
  CASE f = "--model" -> o.Model # ""
    [] f = "--fallback-model" -> o.FallbackModel # ""
    [] f = "--continue" -> o.Continue
    [] f = "--resume" -> o.Resume # ""
    [] f = "--system-prompt" -> o.CustomSystemPrompt # ""
    [] f = "--append-system-prompt" -> o.AppendSystemPrompt # ""
    [] f = "--allowed-tools" -> o.AllowedTools # <<>>
    [] f = "--disallowed-tools" -> o.DisallowedTools # <<>>
    [] f = "--max-thinking-tokens" -> o.MaxThinkingTokens # <<>>
    [] f = "--max-turns" -> o.MaxTurns # <<>>
    [] f = "--permission-mode" -> o.PermissionMode # ""
    [] f = "--permission-prompt-tool-name" -> o.PermissionPromptToolName # ""
    [] f = "--mcp-servers" -> DOMAIN o.MCPServers # {}

\* The arguments that follow a flag: its value, nothing for --continue.
FlagValue(o, f) ==
  CASE f = "--model" -> <<o.Model>>
    [] f = "--fallback-model" -> <<o.FallbackModel>>
    [] f = "--continue" -> <<>>
    [] f = "--resume" -> <<o.Resume>>
    [] f = "--system-prompt" -> <<o.CustomSystemPrompt>>
    [] f = "--append-system-prompt" -> <<o.AppendSystemPrompt>>
    [] f = "--allowed-tools" -> <<Join(o.AllowedTools, ",")>>
    [] f = "--disallowed-tools" -> <<Join(o.DisallowedTools, ",")>>
    [] f = "--max-thinking-tokens" -> <<ToString(o.MaxThinkingTokens[1])>>
    [] f = "--max-turns" -> <<ToString(o.MaxTurns[1])>>
    [] f = "--permission-mode" -> <<o.PermissionMode>>
    [] f = "--permission-prompt-tool-name" -> <<o.PermissionPromptToolName>>
    [] f = "--mcp-servers" -> <<MarshalServers(o.MCPServers)>>

\* C16: the flags in the list BuildArgs returns are exactly the flags of the
\* fields that are set, in the fixed order, each followed by its value and
\* by nothing else; nil Options and Options with no field set give the empty
\* list; a numeric limit that is present is emitted with its value, 0 too.
C16_FlagMapping ==
  built # <<>> =>
    IF opts = <<>> THEN built[1] = <<>>
    ELSE LET o == opts[1]
             args == built[1]
             flags == SelectSeq(args, LAMBDA a : a \in FlagNames)
             values == SelectSeq(args, LAMBDA a : a \notin FlagNames)
         IN  /\ flags = SelectSeq(FlagOrder, LAMBDA f : FlagSet(o, f))
             /\ \A i \in 1..Len(args) :
                  args[i] \in FlagNames =>
                    LET v == FlagValue(o, args[i]) IN
                    /\ i + Len(v) <= Len(args)
                    /\ SubSeq(args, i + 1, i + Len(v)) = v
             /\ Len(values) = Len(flags) - (IF o.Continue THEN 1 ELSE 0)
             /\ (o.MaxThinkingTokens = <<0>>) =>
                  \E i \in 1..(Len(args) - 1) :
                    args[i] = "--max-thinking-tokens" /\ args[i + 1] = "0"
             /\ (o = EmptyOptions) => args = <<>>

\* BuildArgs was called with every one of the thirteen fields set, the
\* thinking-token limit to 0.
C16_Witness ==
  /\ built # <<>>
  /\ opts # <<>>
  /\ opts[1].MaxThinkingTokens = <<0>>
  /\ Len(built[1]) = 25

\* --- C17
\* The flags every call of a mode passes.
FixedPrefix(mode) ==
  IF mode = "Execute" THEN <<"--print", "--output-format", "json">>
  ELSE <<"--print", "--output-format", "stream-json", "--verbose">>

\* C17: the argument list of every executor invocation starts with the
\* fixed flags of its mode and goes on with exactly BuildArgs(opts), whatever
\* the options.
C17_AlwaysPresentFlags ==
  \A i \in 1..Len(execLog) :
    LET e == execLog[i]
        n == Len(FixedPrefix(e.mode))
    IN  /\ Len(e.args) >= n
        /\ SubSeq(e.args, 1, n) = FixedPrefix(e.mode)
        /\ SubSeq(e.args, n + 1, Len(e.args)) = BuildArgs(opts)

\* A streaming invocation with option-derived flags after the four fixed
\* ones.
C17_Witness ==
  /\ Len(execLog) = 1
  /\ execLog[1].mode = "ExecuteStream"
  /\ Len(execLog[1].args) > 4
  /\ execLog[1].args[5] = "--model"

\* --- C18
\* C18: a call with a non-empty prompt and options that break no constraint
\* invokes the executor exactly once (no call invokes it more often), under
\* the name of the PathToClaudeCodeExecutable option when that is set and
\* "claude" otherwise, with the prompt as standard input.
C18_InvocationTargetAndInput ==
  /\ Len(execLog) <= 1
  /\ (pc # "idle" /\ prompt # "" /\ OffendingFields(opts) = {}) =>
       /\ Len(execLog) = 1
       /\ execLog[1].stdin = prompt
       /\ execLog[1].name =
            (IF opts = <<>> THEN "claude"
             ELSE IF opts[1].PathToClaudeCodeExecutable = "" THEN "claude"
             ELSE opts[1].PathToClaudeCodeExecutable)

\* The executor invoked under the name the options give, in a call that
\* went on to return a stream.
C18_Witness ==
  /\ ret.kind = "stream"
  /\ Len(execLog) = 1
  /\ execLog[1].name = "/opt/claude"
  /\ execLog[1].stdin = "Hello"

\* --- C19
\* C19: the process of a Query or QueryStream call is started in the
\* directory Options.WorkingDir names when that is not empty, and in the
\* caller's directory otherwise.
C19_WorkingDirectory ==
  (procState # "none" /\ Len(execLog) = 1) =>
    CmdDir(execLog[1].workingDir) =
      (IF opts # <<>> /\ opts[1].WorkingDir # "" THEN opts[1].WorkingDir
       ELSE Inherited)

\* --- C20
\* The data-model invariant of an *Options value.
SatisfiesInvariant(o) ==
  \/ o = <<>>
  \/ /\ (o[1].MaxThinkingTokens = <<>> \/ o[1].MaxThinkingTokens[1] >= 0)
     /\ (o[1].MaxTurns = <<>> \/ o[1].MaxTurns[1] >= 0)
     /\ \A n \in DOMAIN o[1].MCPServers : o[1].MCPServers[n] # "nil"
     /\ o[1].PermissionMode \in
          {"", "default", "acceptEdits", "bypassPermissions", "plan"}

\* C20: Validate returns nil exactly for the Options that satisfy the
\* invariant (nil Options, limits of 0 and an empty mode among them), and
\* every other return is a ConfigError that names an offending field and
\* carries its value and a reason.
C20_ValidateAcceptsExactlyValid ==
  validated # <<>> =>
    /\ (validated[1] = Nil) <=> SatisfiesInvariant(opts)
    /\ validated[1] # Nil =>
         /\ validated[1].kind = "ConfigError"
         /\ validated[1].Field \in OffendingFields(opts)
         /\ validated[1].Value # ""
         /\ validated[1].Reason # ""

\* Validate accepted Options whose thinking-token limit is 0 and whose
\* permission mode is empty, with an MCP server configured.
C20_Witness ==
  /\ validated = <<Nil>>
  /\ opts # <<>>
  /\ opts[1].MaxThinkingTokens = <<0>>
  /\ opts[1].PermissionMode = ""
  /\ DOMAIN opts[1].MCPServers # {}

\* --- C21
\* C21: a package-level Query or QueryStream makes exactly one call of the
\* default client's method of the same name, with the prompt and options it
\* was given, and returns what that call returned, unchanged.
C21_PackageDelegation ==
  (defaultClient.kind = "mock" /\ pc = "returned") =>
    /\ Len(clientCalls) = 1
    /\ clientCalls[1].prompt = prompt
    /\ clientCalls[1].opts = opts
    /\ clientCalls[1].method \in {"Query", "QueryStream"}
    /\ clientCalls[1].method = "Query" =>
         (ret = defaultClient.Query /\ ret.kind \in {"result", "error"})
    /\ clientCalls[1].method = "QueryStream" =>
         (ret = defaultClient.QueryStream /\ ret.kind \in {"stream", "error"})

\* The package QueryStream handed back the stream of the default client,
\* which it had called with nil options.
C21_Witness ==
  /\ defaultClient.kind = "mock"
  /\ pc = "returned"
  /\ opts = <<>>
  /\ clientCalls[1].method = "QueryStream"
  /\ ret.kind = "stream"

\* --- C22
\* C22: on every way out of the reader the deferred calls run in the order
\* cancel, stream.Close, close(messages): the output handle is closed only
\* once the derived context is cancelled, Messages is closed only once the
\* handle's Close has returned (pipe closed, process reaped), and so a
\* consumer that sees Messages closed finds both already done.
C22_CleanupOrder ==
  /\ pipeClosed => cancelInvoked
  /\ (rpc # "none" /\ reaped) => (pipeClosed /\ handleCloses = 1)
  /\ chanClosed => (cancelInvoked /\ pipeClosed /\ reaped)
  /\ sawClosed => (chanClosed /\ StreamCtxDone /\ reaped)
  /\ rpc = "close" => (cancelInvoked /\ ~pipeClosed /\ ~chanClosed)
  /\ rpc = "wait" => (cancelInvoked /\ pipeClosed /\ ~reaped /\ ~chanClosed)
  /\ rpc = "close_chan" => (cancelInvoked /\ reaped /\ ~chanClosed)

\* The consumer saw Messages closed after a reader that ran to the end of
\* the output, with nobody else having cancelled the derived context.
C22_Witness ==
  /\ sawClosed
  /\ closeCalls = 0
  /\ ~callerCancelled
  /\ cancelInvoked
  /\ reaped
  /\ rd = Len(Stdout)

\* --- C23
\* C23: every offer of an item races against the derived context.  A send
\* that ends without the consumer having received the item ends only
\* because the derived context is done, and the reader then drops the item
\* and goes to its deferred calls; a reader that has left its loop reads no
\* further line and delivers nothing more; and a reader offering an item
\* while the derived context is done does not stay in that send for ever,
\* whether or not anybody receives.
C23_CancellableDelivery ==
  /\ [][(rpc \in SendStates /\ rpc' # rpc /\ received' = received) =>
          (StreamCtxDone /\ rpc' = "cancel" /\ rd' = rd)]_vars
  /\ [][ReaderExiting =>
          (ReaderExiting' /\ rd' = rd /\ received' = received)]_vars
  /\ (rpc \in SendStates /\ StreamCtxDone) ~> (rpc \notin SendStates)

\* The reader gave up a message nobody received and is leaving with lines
\* of the output still unread.
C23_Witness ==
  /\ rpc = "cancel"
  /\ StreamCtxDone
  /\ cur # Nil
  /\ cur.Err = Nil
  /\ cur.Message # Nil
  /\ \A i \in 1..Len(received) : received[i] # cur
  /\ rd < Len(Stdout)
  /\ ~readFailed

\* --- C24
\* The items received that came from a line: messages and decode errors.
LineItems(items) ==
  SelectSeq(items, LAMBDA x : x.Err = Nil \/ x.Err.kind = "ParseError")

\* The reader was handed the start of a line that a read failure cut short.
FragmentDecoded ==
  /\ readFailed
  /\ cur # Nil
  /\ cur.Err # Nil
  /\ cur.Err.kind = "ParseError"
  /\ cur.Err.Line = LPartial.raw

\* The number of lines the reader has decoded: the non-blank lines read,
\* and the cut line if it was handed one.
Decoded == Len(NonEmpty(LinesRead)) + (IF FragmentDecoded THEN 1 ELSE 0)

\* C24: Messages is unbuffered, so the reader is at most one item ahead of
\* the consumer: the lines decoded exceed the line items received by at
\* most one, an item is on offer exactly when they exceed them by one, and
\* whenever the reader is about to read a line every decoded line's item
\* has been received.
C24_Backpressure ==
  /\ Decoded <= Len(LineItems(received)) + 1
  /\ rpc = "scan" => Decoded = Len(LineItems(received))
  /\ rpc \in {"send_msg", "send_parse_err"} =>
       Decoded = Len(LineItems(received)) + 1

\* The second line is decoded and on offer, the first one's message
\* received.
C24_Witness ==
  /\ rpc = "send_msg"
  /\ Decoded = 2
  /\ Len(received) = 1
  /\ received[1].Err = Nil

\* --- C25
\* The reader's call of the output handle's Close has returned.
HandleCloseReturned == rpc \in {"close_chan", "done"}

\* C25: the output handle's Close closes the stdout pipe first and returns
\* only when the process has ended: while Close waits the pipe is already
\* closed, and in every state after Close has returned the process has
\* ended and has been reaped, however much of its output was read.
C25_CloseReaps ==
  /\ rpc = "wait" => (pipeClosed /\ handleCloses = 1 /\ ~reaped)
  /\ HandleCloseReturned =>
       (pipeClosed /\ reaped /\ procState \in {"exited", "killed"})
  /\ (rpc # "none" /\ reaped) => HandleCloseReturned

\* Close has returned with a line of the output never read; the process,
\* which ended with status 2, is reaped.
C25_Witness ==
  /\ HandleCloseReturned
  /\ rd < Len(Stdout)
  /\ reaped
  /\ procState = "exited"
  /\ exitCode = 2

\* --- C26
\* C26: closing the output handle is idempotent: a second Close returns what
\* the first one returned (nil after a zero exit, the same ProcessError
\* after a non-zero one) and leaves the process reaped.
C26_HandleCloseIdempotent ==
  [][(handleCloses = 1 /\ handleCloses' = 2) =>
       (closeRet' = closeRet /\ reaped')]_vars

\* --- C27
\* C27: what the output handle's Close returns stays with the reader: no
\* item on Messages carries a ProcessError, and a stream whose reader met
\* neither a line it could not decode nor a read failure delivers no error
\* item at all, whatever the exit status of the process.
C27_ExitStatusNotDelivered ==
  /\ \A i \in 1..Len(received) :
       received[i].Err # Nil => received[i].Err.kind # "ProcessError"
  /\ (~readFailed /\ FirstMalformed(LinesRead) = 0) =>
       ErrorItems(received) = <<>>
  /\ (sawClosed /\ Undisturbed /\ ~readFailed /\ FirstMalformed(Stdout) = 0) =>
       received = ItemsOf(NonEmpty(Stdout))

\* The process printed a record and exited with status 2; Close returned
\* the ProcessError, and the consumer received the message and then saw
\* Messages closed.
C27_Witness ==
  /\ sawClosed
  /\ Undisturbed
  /\ ~readFailed
  /\ exitCode = 2
  /\ closeRet.kind = "ProcessError"
  /\ Len(received) = 1
  /\ received[1].Err = Nil

\* --- C28
\* The error item of a failed read.
ReadErrorItem ==
  MessageOrError(Nil, Errorf("error reading stream", PlainError("read failed")))

\* The error items the reader makes of a scanner error: of a failed read and
\* of a line too long for the scanner.
ReadErrorItems ==
  {ReadErrorItem, MessageOrError(Nil, Errorf("error reading stream", ErrTooLong))}

\* C28: when a read of the output fails with an error other than the end
\* of the input, a consumer that keeps receiving, undisturbed, has received
\* by the time Messages is closed the items of every complete line read
\* before the failure, in order, followed by exactly one error item
\* wrapping the read error; with no read failure it has received no such
\* item.
C28_ResidualReadError ==
  /\ (sawClosed /\ Undisturbed /\ readFailed) =>
       \E e \in ReadErrorItems :
         received = Append(ItemsOf(NonEmpty(LinesRead)), e)
  /\ ~readFailed => \A i \in 1..Len(received) : received[i] \notin ReadErrorItems

\* --- C29
\* The executor refused to start the process of a QueryStream call.
StreamStartFailed ==
  /\ execErr # Nil
  /\ execLog # <<>>
  /\ execLog[Len(execLog)].mode = "ExecuteStream"

\* C29: when the executor fails to start the streaming process, QueryStream
\* returns the executor's error (a ProcessError as it is, any other wrapped)
\* and no stream, the derived context has been cancelled, and there is no
\* reader, no channel and no process then or later; the call itself never
\* cancels the context the caller passed.
C29_StreamStartFailure ==
  /\ [](StreamStartFailed =>
          /\ pc = "returned"
          /\ ret = Return("error", Nil, ExecError(execErr))
          /\ cancelInvoked
          /\ rpc = "none"
          /\ procState = "none"
          /\ ~chanClosed /\ ~pipeClosed /\ ~reaped
          /\ received = <<>> /\ ~sawClosed)
  /\ [][(pc = "idle" /\ pc' # "idle") =>
          callerCancelled' = callerCancelled]_vars

\* QueryStream has returned the wrapped start error; the derived context is
\* cancelled, the caller's is not.
C29_Witness ==
  /\ StreamStartFailed
  /\ ret.kind = "error"
  /\ ret.err.kind = "wrapError"
  /\ cancelInvoked
  /\ ~callerCancelled

\* --- C30
\* Execute is blocked on a process that is still running, with the context
\* it was given already done.
ExpiredWhileRunning ==
  pc = "executing" /\ procState = "running" /\ callerCancelled

\* Execute has returned after waiting for the process.
ExecuteReturned == QueryReturned /\ reaped

\* A call of the executor made with a context that is already done returns
\* an error at once; no process runs.
StartsNothingWhenExpired ==
  [][(pc = "idle" /\ callerCancelled /\ execLog' # execLog) =>
       (pc' = "returned" /\ execErr' # Nil /\ procState' = "none")]_vars

C31_OptionsReadOnly ==
  /\ [][opts' = opts /\ prompt' = prompt]_vars
  /\ [](\A i \in 1..Len(execLog) :
          execLog[i].name = "claude" =>
            (opts = <<>> \/ opts[1].PathToClaudeCodeExecutable = ""))

\* A streaming call made with nil options ran with the default executable
\* and has finished; the options are still nil.
C31_Witness ==
  /\ opts = <<>>
  /\ execLog # <<>>
  /\ execLog[1].name = "claude"
  /\ execLog[1].mode = "ExecuteStream"
  /\ rpc = "done"

\* --- C32
\* C32: for a stream that QueryStream started, under every interleaving
\* with MessageStream.Close and cancellation, the output handle's Close is
\* called at most once, and exactly once by the time the reader has gone
\* past it; Messages is closed as the last step of the reader, on a channel
\* still open, and a terminated reader takes no further step, so it is
\* closed exactly once; and once Messages is closed nothing more is sent or
\* on offer.
C32_SingleCleanup ==
  /\ [](handleCloses <= 1)
  /\ [](rpc \in {"scan", "send_msg", "send_parse_err", "send_read_err",
                 "cancel", "close"} => handleCloses = 0)
  /\ [](rpc \in {"wait", "close_chan", "done"} => handleCloses = 1)
  /\ [](chanClosed <=> rpc = "done")
  /\ [][rpc = "done" => rpc' = "done"]_vars
  /\ [][chanClosed => (chanClosed' /\ received' = received)]_vars

\* MessageStream.Close was called twice and the caller's context cancelled
\* on a stream whose reader has finished: one Close of the handle, Messages
\* closed.
C32_Witness ==
  /\ Started
  /\ closeCalls = 2
  /\ callerCancelled
  /\ rpc = "done"
  /\ handleCloses = 1
  /\ chanClosed

\* --- C33
\* Execute succeeded and the output of the one-shot process is one JSON
\* object.
OneObjectOutput ==
  /\ QueryReturned
  /\ reaped
  /\ execErr = Nil
  /\ Len(OutputDocs) = 1
  /\ OutputDocs[1].json = "object"

\* Query returned the document as a ResultMessage, its type copied, although
\* ParseMessage treats a document of that type otherwise: it rejects it or
\* makes a message of another variant of it.
AcceptedWhateverType ==
  /\ ret.kind = "result"
  /\ ret.err = Nil
  /\ ret.val.kind = "ResultMessage"
  /\ ret.val.Type = OutputDocs[1].type
  /\ OutputDocs[1].type # "result" =>
       \/ ParseMessage(OutputDocs[1]).Err # Nil
       \/ ParseMessage(OutputDocs[1]).Message.messageType # "result"

\* C33 as stated: Query returns a ResultMessage without error for every
\* output that is one well-formed JSON object, whatever its type field.
C33_OneShotAcceptsAnyObject == OneObjectOutput => AcceptedWhateverType

\* C33, amended: Query returns a ResultMessage without error for every
\* output that is one well-formed JSON object whose fields have the types
\* ResultMessage declares, whatever the value of its type field: a user, an
\* unknown or an absent type is accepted and copied into the result, where
\* ParseMessage routes the same document to another variant or rejects it.
C33_OneShotAcceptsAnyType ==
  (OneObjectOutput /\ OutputDocs[1].session_id.json \in {"absent", "string"})
    => AcceptedWhateverType

\* Query returned a ResultMessage of type "unknown", a document that
\* ParseMessage rejects.
C33_Witness ==
  /\ OneObjectOutput
  /\ ret.kind = "result"
  /\ ret.val.Type = "unknown"
  /\ ParseMessage(OutputDocs[1]).Err # Nil

\* --- C34
\* The error is of one of the given kinds; a wrapped error wraps a plain one.
KindIn(err, kinds) ==
  /\ err.kind \in kinds
  /\ err.kind = "wrapError" => err.cause.kind = "error"

ReadsLine(l) ==
  /\ rpc = "scan"
  /\ rd' = rd + 1
  /\ Written(wrote, 1)[rd + 1] = l

\* The line is handed to the parser, and its decode error is offered.
OffersDecodeError(text) ==
  /\ rpc' = "send_parse_err"
  /\ cur' = MessageOrError(Nil, ParseError(text, "invalid JSON"))
  /\ received' = received

\* C35 as stated: a line of white space only, a space or a lone carriage
\* return, is not blank: it goes to the parser and its ParseError is offered.
C35_WhitespaceLinesAreParsed ==
  /\ [][ReadsLine(LSpace) => OffersDecodeError(" ")]_vars
  /\ [][ReadsLine(LCR) => OffersDecodeError("\r")]_vars

\* C35, amended: only lines that are empty once the scanner has cut them
\* count as blank.  A line of spaces goes to the parser, fails to decode and
\* ends the stream with its ParseError as the last item, like any malformed
\* line; a line holding nothing but the carriage return of its line ending
\* is empty after the cut and is skipped like an empty line.
C35_OnlyEmptyLinesAreBlank ==
  /\ [][ReadsLine(LSpace) => OffersDecodeError(" ")]_vars
  /\ [][ReadsLine(LCR) =>
          (rpc' = "scan" /\ cur' = cur /\ received' = received)]_vars
  /\ [](\A i \in 1..Len(received) :
          (received[i].Err # Nil /\ received[i].Err.kind = "ParseError"
             /\ received[i].Err.Line = " ")
            => (i = Len(received) /\ ReaderExiting
                  /\ Written(wrote, 1)[rd] = LSpace))

\* A record and then a line of one space: the consumer received the message
\* and the ParseError of the space, and saw Messages closed.
C35_Witness ==
  /\ sawClosed
  /\ Len(received) = 2
  /\ received[1].Err = Nil
  /\ received[2].Err = ParseError(" ", "invalid JSON")
  /\ rd = 2

\* --- C36
\* The fields Validate may name for an Options value: those of the first
\* constraint broken, in the order MaxThinkingTokens, MaxTurns, MCPServers,
\* PermissionMode.
FirstOffending(o) ==
  LET all == OffendingFields(o)
      servers == all \ {"MaxThinkingTokens", "MaxTurns", "PermissionMode"}
  IN  IF "MaxThinkingTokens" \in all THEN {"MaxThinkingTokens"}
      ELSE IF "MaxTurns" \in all THEN {"MaxTurns"}
      ELSE IF servers # {} THEN servers
      ELSE all

\* Validate can return an error that names the field.
CanReport(field) ==
  ENABLED (CallValidate /\ validated'[1] # Nil
             /\ validated'[1].Field = field)

\* C36: Validate returns one error, for the first constraint broken in the
\* order MaxThinkingTokens, MaxTurns, MCPServers, PermissionMode, whatever
\* else is broken; when the first broken constraint is MCPServers, each nil
\* entry is one the call can report, and no other field is.
C36_ValidationPriority ==
  /\ (validated # <<>> /\ validated[1] # Nil) =>
       /\ Len(validated) = 1
       /\ validated[1].kind = "ConfigError"
       /\ validated[1].Field \in FirstOffending(opts)
  /\ validated = <<>> =>
       \A f \in OffendingFields(opts) : CanReport(f) <=> f \in FirstOffending(opts)

\* Both server entries are nil and the permission mode is invalid; Validate
\* reported the second entry.
C36_Witness ==
  /\ validated # <<>>
  /\ validated[1] # Nil
  /\ validated[1].Field = "MCPServers[b]"
  /\ OffendingFields(opts) =
       {"MCPServers[a]", "MCPServers[b]", "PermissionMode"}

\* --- C37
\* The next line of the output is too long for the scanner.
NextIsLong == rd < Len(Stdout) /\ Stdout[rd + 1] = LLong

\* The error item the reader makes of bufio.ErrTooLong.
TooLongItem ==
  MessageOrError(Nil, Errorf("error reading stream", ErrTooLong))

\* The reader's last item came of a failed read: the read error, or the
\* parse error of the line the failure cut short.
EndedByFailedRead ==
  /\ received # <<>>
  /\ received[Len(received)] \in {ReadErrorItem, OnLine(LPartial).item}

====
